---------------------------- MODULE Spec2Model ----------------------------
(***************************************************************************)
(* A model of Filters.js: the Color value type, the MinimalView pixel      *)
(* surface (a grid of references to Color objects), the Filters engine and *)
(* the web-worker message handler.                                         *)
(*                                                                         *)
(* Numbers.  Every JavaScript number is modelled as an exact rational      *)
(* [n |-> numerator, d |-> denominator] in lowest terms, d > 0; NaN (and   *)
(* the value `undefined` wherever it is only used arithmetically) is the   *)
(* record with d = 0.  Binary floating point rounding error is not         *)
(* modelled: the inputs enumerated below are chosen so that every value    *)
(* the code computes from them is a short finite decimal or a ratio that   *)
(* is rounded to an integer away from a .5 boundary.                       *)
(*                                                                         *)
(* Objects.  Color objects live in a heap (a sequence of Color records);   *)
(* a surface stores heap references, exactly as MinimalView stores object  *)
(* references in this.colors.  Reference 0 is null.                        *)
(*                                                                         *)
(* Strings.  A JavaScript string is a sequence of one-character strings.   *)
(***************************************************************************)
EXTENDS Integers, Sequences, FiniteSets, TLC

-----------------------------------------------------------------------------
(* Generic helpers *)

\* The function f with domain 1..n as the sequence <<f[1], ..., f[n]>>.
Tuple(f) == SubSeq(f, 1, Len(f))

\* F(v), with v evaluated before F is entered: the loops below carry their
\* accumulator from one iteration to the next as a value, not as a pending
\* expression.
Then(v, F(_)) == CHOOSE r \in {F(x) : x \in {v}} : TRUE

RECURSIVE FoldLeft(_, _, _)
FoldLeft(Op(_, _), acc, seq) ==
    IF seq = <<>> THEN acc
    ELSE LET rest(next) == FoldLeft(Op, next, Tail(seq))
         IN  Then(Op(acc, Head(seq)), rest)

\* The integers lo, lo+1, ..., hi as a sequence (empty when hi < lo):
\* the successive values of a `for (i = lo; i <= hi; i++)` counter.
Range(lo, hi) == Tuple([i \in 1..(IF hi >= lo THEN hi - lo + 1 ELSE 0) |-> lo + i - 1])

RECURSIVE Flatten(_)
Flatten(seqs) ==
    IF seqs = <<>> THEN <<>>
    ELSE IF Len(seqs) = 1 THEN seqs[1]
    ELSE LET m == Len(seqs) \div 2
         IN  Flatten(SubSeq(seqs, 1, m)) \o Flatten(SubSeq(seqs, m + 1, Len(seqs)))

-----------------------------------------------------------------------------
(* JavaScript numbers as exact rationals *)

Abs(i) == IF i < 0 THEN -i ELSE i

RECURSIVE GCD(_, _)
GCD(a, b) == IF b = 0 THEN a ELSE GCD(b, a % b)

NaN == [n |-> 0, d |-> 0]

IsNaN(q) == q.d = 0

\* The rational num/den in lowest terms (den # 0).
Q(num, den) ==
    LET s == IF den < 0 THEN -1 ELSE 1
        g == GCD(Abs(num), Abs(den))
    IN  [n |-> (s * num) \div g, d |-> (s * den) \div g]

QInt(i) == [n |-> i, d |-> 1]

IsInteger(q) == q.d = 1

QAdd(a, b) == IF IsNaN(a) \/ IsNaN(b) THEN NaN ELSE Q(a.n * b.d + b.n * a.d, a.d * b.d)
QSub(a, b) == IF IsNaN(a) \/ IsNaN(b) THEN NaN ELSE Q(a.n * b.d - b.n * a.d, a.d * b.d)
QMul(a, b) == IF IsNaN(a) \/ IsNaN(b) THEN NaN ELSE Q(a.n * b.n, a.d * b.d)
\* Division by zero (Infinity in JavaScript) does not occur for the inputs
\* enumerated here; it is mapped to NaN.
QDiv(a, b) == IF IsNaN(a) \/ IsNaN(b) \/ b.n = 0 THEN NaN ELSE Q(a.n * b.d, a.d * b.n)

\* Comparisons: every comparison with NaN is false, as in JavaScript.
QLt(a, b) == ~IsNaN(a) /\ ~IsNaN(b) /\ a.n * b.d < b.n * a.d
QGt(a, b) == QLt(b, a)
QLe(a, b) == ~IsNaN(a) /\ ~IsNaN(b) /\ a.n * b.d <= b.n * a.d
QGe(a, b) == QLe(b, a)
\* a == b on numbers
QEq(a, b) == ~IsNaN(a) /\ ~IsNaN(b) /\ a = b

\* Math.floor, Math.ceil, Math.round (round half towards +Infinity).
MathFloor(q) == IF IsNaN(q) THEN NaN ELSE QInt(q.n \div q.d)
MathCeil(q) == IF IsNaN(q) THEN NaN ELSE QInt(-((-q.n) \div q.d))
MathRound(q) == IF IsNaN(q) THEN NaN ELSE MathFloor(QAdd(q, Q(1, 2)))

\* The JavaScript remainder a % b: the result takes the sign of the dividend.
JsRemainder(a, b) ==
    IF IsNaN(a) \/ IsNaN(b) \/ b.n = 0 THEN NaN
    ELSE LET quo  == QDiv(a, b)
             trnc == IF quo.n >= 0 THEN MathFloor(quo) ELSE MathCeil(quo)
         IN  QSub(a, QMul(trnc, b))

\* JavaScript truthiness of a number: NaN and 0 are falsy.
Truthy(q) == ~IsNaN(q) /\ q.n # 0

-----------------------------------------------------------------------------
(* JavaScript strings as sequences of one-character strings *)

DigitChars == <<"0", "1", "2", "3", "4", "5", "6", "7", "8", "9">>

IsDigit(ch) == \E i \in 1..10 : DigitChars[i] = ch

DigitValue(ch) == (CHOOSE i \in 1..10 : DigitChars[i] = ch) - 1

SetMin(S) == CHOOSE m \in S : \A x \in S : m <= x

RECURSIVE NatToString(_)
NatToString(i) ==
    IF i < 10 THEN <<DigitChars[i + 1]>>
    ELSE NatToString(i \div 10) \o <<DigitChars[(i % 10) + 1]>>

\* The digits after the decimal point of rem/den (0 <= rem < den), at most k.
RECURSIVE FractionDigits(_, _, _)
FractionDigits(rem, den, k) ==
    IF rem = 0 \/ k = 0 THEN <<>>
    ELSE <<DigitChars[((10 * rem) \div den) + 1]>>
         \o FractionDigits((10 * rem) % den, den, k - 1)

\* Longest fraction the model prints.  JavaScript prints the shortest decimal
\* that reads back as the same double; for the finite decimals enumerated
\* here that is the exact decimal expansion.
MaxFractionDigits == 8

\* ToString applied to a number ("" + x): "NaN", an integer, or a decimal.
NumberToString(q) ==
    IF IsNaN(q) THEN <<"N", "a", "N">>
    ELSE (IF q.n < 0 THEN <<"-">> ELSE <<>>)
         \o NatToString(Abs(q.n) \div q.d)
         \o (IF Abs(q.n) % q.d = 0 THEN <<>>
             ELSE <<".">> \o FractionDigits(Abs(q.n) % q.d, q.d, MaxFractionDigits))

\* Index of the first character at or after i that is not a digit
\* (Len(s) + 1 when the digits run to the end).
DigitRunEnd(s, i) ==
    LET stop == {k \in i..Len(s) : ~IsDigit(s[k])}
    IN  IF stop = {} THEN Len(s) + 1 ELSE SetMin(stop)

\* The value of the decimal digits s[i..j-1] (0 for an empty run).
RECURSIVE DigitsValue(_, _, _)
DigitsValue(s, i, j) ==
    IF j <= i THEN 0
    ELSE 10 * DigitsValue(s, i, j - 1) + DigitValue(s[j - 1])

\* Index of the first character that is not a blank.
SkipBlanks(s) ==
    LET stop == {k \in 1..Len(s) : s[k] # " "}
    IN  IF stop = {} THEN Len(s) + 1 ELSE SetMin(stop)

\* Whether s has a sign character at b, and whether it is the minus sign.
HasSign(s, b) == b <= Len(s) /\ s[b] \in {"-", "+"}

IsNegative(s, b) == b <= Len(s) /\ s[b] = "-"

\* parseInt(s): leading blanks, an optional sign, then the longest run of
\* decimal digits; NaN when there is no digit.  Whatever follows is ignored.
parseInt(s) ==
    Then(SkipBlanks(s), LAMBDA b :
    Then(IF HasSign(s, b) THEN b + 1 ELSE b, LAMBDA i :
    Then(DigitRunEnd(s, i), LAMBDA j :
        IF j = i THEN NaN
        ELSE QInt((IF IsNegative(s, b) THEN -1 ELSE 1) * DigitsValue(s, i, j)))))

RECURSIVE PowerOfTen(_)
PowerOfTen(k) == IF k = 0 THEN 1 ELSE 10 * PowerOfTen(k - 1)

\* The number whose integer digits are s[i..j-1] and whose fraction digits
\* are s[j+1..k-1] (none when k = j).
Decimal(s, i, j, k) ==
    IF k = j THEN QInt(DigitsValue(s, i, j))
    ELSE Q(DigitsValue(s, i, j) * PowerOfTen(k - (j + 1)) + DigitsValue(s, j + 1, k),
           PowerOfTen(k - (j + 1)))

\* parseFloat(s): leading blanks, an optional sign, digits, an optional
\* "." and more digits; NaN when there is no digit at all.  (Exponents and
\* "Infinity" do not occur in the strings of this model.)
parseFloat(s) ==
    Then(SkipBlanks(s), LAMBDA b :
    Then(IF HasSign(s, b) THEN b + 1 ELSE b, LAMBDA i :
    Then(DigitRunEnd(s, i), LAMBDA j :
    Then(IF j <= Len(s) /\ s[j] = "." THEN DigitRunEnd(s, j + 1) ELSE j, LAMBDA k :
        IF j = i /\ (k = j \/ k = j + 1) THEN NaN
        ELSE IF IsNegative(s, b) THEN QSub(QInt(0), Decimal(s, i, j, k))
        ELSE Decimal(s, i, j, k)))))

\* The positions lo..hi of s holding the character sep, in ascending order.
RECURSIVE SeparatorPositions(_, _, _, _)
SeparatorPositions(s, sep, lo, hi) ==
    IF lo > hi THEN <<>>
    ELSE IF lo = hi THEN (IF s[lo] = sep THEN <<lo>> ELSE <<>>)
    ELSE SeparatorPositions(s, sep, lo, (lo + hi) \div 2)
         \o SeparatorPositions(s, sep, ((lo + hi) \div 2) + 1, hi)

\* The fields of s between the cuts (positions of separators, with 0 in
\* front and Len(s) + 1 at the end).
Fields(s, cut) == Tuple([f \in 1..(Len(cut) - 1) |-> SubSeq(s, cut[f] + 1, cut[f + 1] - 1)])

\* s.split(sep) for a one-character separator: the fields between
\* separators, empty fields included ("a;" gives <<"a", "">>).
Split(s, sep) ==
    Then(<<0>> \o SeparatorPositions(s, sep, 1, Len(s)) \o <<Len(s) + 1>>,
         LAMBDA cut : Fields(s, cut))

\* s.replace(/c/g, "") : s without the characters in the set drop.
RemoveChars(s, drop) == SelectSeq(s, LAMBDA ch : ch \notin drop)

\* Index of the first occurrence of pat in s, 0 when there is none.
IndexOf(s, pat) ==
    IF \E i \in 1..(Len(s) - Len(pat) + 1) : SubSeq(s, i, i + Len(pat) - 1) = pat
    THEN SetMin({i \in 1..(Len(s) - Len(pat) + 1) : SubSeq(s, i, i + Len(pat) - 1) = pat})
    ELSE 0

\* s without the Len(pat) characters from index i on (s itself when i = 0).
RemoveAt(s, i, pat) ==
    IF i = 0 THEN s ELSE SubSeq(s, 1, i - 1) \o SubSeq(s, i + Len(pat), Len(s))

\* s.replace(pat, "") for a literal pattern: the first occurrence removed.
RemoveFirst(s, pat) == RemoveAt(s, IndexOf(s, pat), pat)

-----------------------------------------------------------------------------
(* Free functions of Filters.js *)

isKindaSortaEqual(inValue1, inValue2, inTolerance) ==
    IF QGt(inValue1, QAdd(inValue2, inTolerance)) THEN FALSE
    ELSE IF QLt(inValue1, QSub(inValue2, inTolerance)) THEN FALSE
    ELSE TRUE

xlate255ColorToNormalizedColor(in255Color) ==
    IF QLt(QInt(255), in255Color) THEN QDiv(QInt(255), QInt(255)) ELSE QDiv(in255Color, QInt(255))

xlateNormalizedColorTo255Color(inNormalizedColor) ==
    IF QGt(QInt(0), inNormalizedColor) THEN MathRound(QMul(QInt(0), QInt(255)))
    ELSE IF QLt(QInt(1), inNormalizedColor) THEN MathRound(QMul(QInt(1), QInt(255)))
    ELSE MathRound(QMul(inNormalizedColor, QInt(255)))

-----------------------------------------------------------------------------
(* Color *)

\* `undefined` used as a number behaves as NaN.
Undefined == NaN

\* new Color(inRed, inGreen, inBlue, inAlpha) with all four numbers given
\* (inTransparent is never passed as true, so transparent is false).
Color(inRed, inGreen, inBlue, inAlpha) ==
    [r |-> inRed, g |-> inGreen, b |-> inBlue, a |-> inAlpha,
     transparent |-> FALSE, normalized |-> FALSE]

\* new Color(): r, g, b stay undefined, the missing alpha becomes 1.0.
NewColor ==
    [r |-> Undefined, g |-> Undefined, b |-> Undefined, a |-> QInt(1),
     transparent |-> FALSE, normalized |-> FALSE]

\* The r, g, b, a of a color, for comparisons of pixel values.
RGBA(c) == <<c.r, c.g, c.b, c.a>>

Color_toStringWithAlpha(this) ==
    <<"r", "g", "b", "a", "(">> \o NumberToString(this.r) \o <<",", " ">>
    \o NumberToString(this.g) \o <<",", " ">> \o NumberToString(this.b)
    \o <<",", " ">> \o NumberToString(this.a) \o <<")">>

\* The i-th element of the split color string, "" when it is missing
\* (parseInt(undefined) and parseInt("") are both NaN).
ColorField(aRGB, i) == IF i <= Len(aRGB) THEN aRGB[i] ELSE <<>>

Color_fromStringWithAlpha(this, inColorString) ==
    Then(Split(RemoveChars(RemoveFirst(inColorString, <<"r", "g", "b", "a", "(">>),
                           {")", " "}), ","),
         LAMBDA aRGB :
            [this EXCEPT !.r = parseInt(ColorField(aRGB, 1)),
                         !.g = parseInt(ColorField(aRGB, 2)),
                         !.b = parseInt(ColorField(aRGB, 3)),
                         !.a = parseFloat(ColorField(aRGB, 4))])

\* A variant of isEqual's first statement that keeps the global's old value
\* when no tolerance is passed.
Color_isEqual_global_stale(globalTolerance, inTolerance) ==
    IF Truthy(inTolerance) THEN inTolerance ELSE globalTolerance

\* The global variable `tolerance` after isEqual's first statement,
\* `tolerance = (inTolerance)? inTolerance : 0;` (the assignment has no
\* `var`, so it writes a global that outlives the call).
Color_isEqual_global(globalTolerance, inTolerance) ==
    IF Truthy(inTolerance) THEN inTolerance ELSE QInt(0)

\* this.isEqual(inColor, inTolerance), evaluated with the global `tolerance`
\* holding globalTolerance on entry; the comparisons read the global after
\* the assignment.
Color_isEqual(this, inColor, inTolerance, globalTolerance) ==
    Then(Color_isEqual_global(globalTolerance, inTolerance), LAMBDA tolerance :
        IF ~isKindaSortaEqual(this.r, inColor.r, tolerance) THEN FALSE
        ELSE IF ~isKindaSortaEqual(this.g, inColor.g, tolerance) THEN FALSE
        ELSE IF ~isKindaSortaEqual(this.b, inColor.b, tolerance) THEN FALSE
        ELSE IF ~isKindaSortaEqual(this.a, inColor.a, tolerance) THEN FALSE
        ELSE IF this.transparent # inColor.transparent THEN FALSE
        ELSE TRUE)

Color_invert(this) ==
    [this EXCEPT !.r = QSub(QInt(255), this.r),
                 !.g = QSub(QInt(255), this.g),
                 !.b = QSub(QInt(255), this.b)]

Color_grayscale(this) ==
    Then(QAdd(QAdd(QMul(this.r, Q(299, 1000)), QMul(this.g, Q(587, 1000))),
              QMul(this.b, Q(114, 1000))),
         LAMBDA sum :
    Then(IF ~this.normalized THEN MathRound(sum) ELSE sum,
         LAMBDA fLuminance :
            [this EXCEPT !.r = fLuminance, !.g = fLuminance, !.b = fLuminance]))

CROSS == 1
ADDITIVE == 2
ADDITIVE_ALPHA == 3
MULTIPLIED == 4

Color_getNormalizedColor(this) ==
    IF ~this.normalized
    THEN [r |-> xlate255ColorToNormalizedColor(this.r),
          g |-> xlate255ColorToNormalizedColor(this.g),
          b |-> xlate255ColorToNormalizedColor(this.b),
          a |-> this.a, transparent |-> FALSE, normalized |-> TRUE]
    ELSE [r |-> this.r, g |-> this.g, b |-> this.b,
          a |-> this.a, transparent |-> FALSE, normalized |-> TRUE]

Color_get255Color(this) ==
    IF ~this.normalized
    THEN [r |-> this.r, g |-> this.g, b |-> this.b,
          a |-> this.a, transparent |-> FALSE, normalized |-> FALSE]
    ELSE [r |-> xlateNormalizedColorTo255Color(this.r),
          g |-> xlateNormalizedColorTo255Color(this.g),
          b |-> xlateNormalizedColorTo255Color(this.b),
          a |-> this.a, transparent |-> FALSE, normalized |-> FALSE]

\* The clamp of blend: a channel above 1.0 becomes 1.0.
BlendClamp(v) == IF QLt(QInt(1), v) THEN QInt(1) ELSE v

\* A blend that adds the weighted source to the whole destination, whatever
\* the operation.
BlendChannel_added(dst, src, srcA, inBlendOperation) == BlendClamp(QAdd(dst, QMul(src, srcA)))

\* One channel of blend: the combination, then the clamp to at most 1.0.
\* inBlendOperation 0 stands for `undefined` (no branch taken).
BlendChannel(dst, src, srcA, inBlendOperation) ==
    BlendClamp(IF inBlendOperation = CROSS
               THEN QAdd(QMul(dst, QSub(QInt(1), srcA)), QMul(src, srcA))
               ELSE IF inBlendOperation = ADDITIVE THEN QAdd(dst, src)
               ELSE IF inBlendOperation = ADDITIVE_ALPHA THEN QAdd(dst, QMul(src, srcA))
               ELSE IF inBlendOperation = MULTIPLIED THEN QMul(dst, src)
               ELSE dst)

\* The channels of blend, as the 4-tuple r, g, b, a of normalized values.
BlendChannels(normalizedThis, normalizedSource, inBlendOperation) ==
    Tuple([i \in 1..4 |->
        BlendChannel(RGBA(normalizedThis)[i],
                     IF i = 4 THEN normalizedSource.a ELSE RGBA(normalizedSource)[i],
                     normalizedSource.a, inBlendOperation)])

Color_blend(this, inSourceColor, inBlendOperation) ==
    Then(BlendChannels(Color_getNormalizedColor(this),
                       Color_getNormalizedColor(inSourceColor), inBlendOperation),
         LAMBDA c :
            [this EXCEPT !.r = xlateNormalizedColorTo255Color(c[1]),
                         !.g = xlateNormalizedColorTo255Color(c[2]),
                         !.b = xlateNormalizedColorTo255Color(c[3]),
                         !.a = c[4]])

ClampNumber(v, max) ==
    IF QLt(v, QInt(0)) THEN QInt(0) ELSE IF QGt(v, max) THEN max ELSE v

Color_clamp(this) ==
    LET max == IF this.normalized THEN QInt(1) ELSE QInt(255)
    IN  [this EXCEPT !.r = ClampNumber(this.r, max), !.g = ClampNumber(this.g, max),
                     !.b = ClampNumber(this.b, max), !.a = ClampNumber(this.a, QInt(1))]

Color_assignNumber(this, inNumber) ==
    [this EXCEPT !.r = inNumber, !.g = inNumber, !.b = inNumber, !.a = inNumber]

\* A multiplyNumber that leaves the color as it is.
Color_multiplyNumber_ignored(this, inNumber) == this

Color_multiplyNumber(this, inNumber) ==
    [this EXCEPT !.r = QMul(this.r, inNumber), !.g = QMul(this.g, inNumber),
                 !.b = QMul(this.b, inNumber), !.a = QMul(this.a, inNumber)]

\* An addColor that adds nothing.
Color_addColor_kept(this, inColor) == this

Color_addColor(this, inColor) ==
    [this EXCEPT !.r = QAdd(this.r, inColor.r), !.g = QAdd(this.g, inColor.g),
                 !.b = QAdd(this.b, inColor.b), !.a = QAdd(this.a, inColor.a)]

-----------------------------------------------------------------------------
(* The heap of Color objects and MinimalView *)

Null == 0

\* new MinimalView(inWidth, inHeight) on a heap: inHeight rows of inWidth
\* fresh Color(0, 0, 0, 0) objects.  Gives the new heap and the view.
MinimalView(heap, inWidth, inHeight) ==
    LET base == Len(heap)
    IN  [heap |-> heap \o Tuple([k \in 1..(inWidth * inHeight) |->
                                    Color(QInt(0), QInt(0), QInt(0), QInt(0))]),
         view |-> [width |-> inWidth, height |-> inHeight,
                   colors |-> Tuple([y \in 1..inHeight |->
                                 Tuple([x \in 1..inWidth |-> base + (y - 1) * inWidth + x])]),
                   backgroundColor |-> Null]]

MinimalView_getWidth(this) == this.width

MinimalView_setWidth(this, inWidth) == [this EXCEPT !.width = inWidth]

MinimalView_getHeight(this) == this.height

MinimalView_setHeight(this, inHeight) == [this EXCEPT !.height = inHeight]

\* A setColor that stores whatever it is given, no color included.
MinimalView_setColor_unchecked(this, inX, inY, inColor) ==
    IF 0 > inX \/ 0 > inY \/ inY >= Len(this.colors) THEN this
    ELSE IF inX >= Len(this.colors[inY + 1]) THEN this
    ELSE [this EXCEPT !.colors[inY + 1][inX + 1] = inColor]

\* A setColor that moves a coordinate outside the grid to the nearest edge.
MinimalView_setColor_clamped(this, inX, inY, inColor) ==
    IF inColor = Null THEN this
    ELSE [this EXCEPT
            !["colors"][IF inY < 0 THEN 1 ELSE IF inY >= Len(this.colors) THEN Len(this.colors)
                        ELSE inY + 1]
                       [IF inX < 0 THEN 1 ELSE IF inX >= this.width THEN this.width
                        ELSE inX + 1] = inColor]

\* this.setColor(inX, inY, inColor) with inColor a reference (Null allowed).
MinimalView_setColor(this, inX, inY, inColor) ==
    IF inColor = Null THEN this
    ELSE IF 0 > inX \/ 0 > inY \/ inY >= Len(this.colors) THEN this
    ELSE IF inX >= Len(this.colors[inY + 1]) THEN this
    ELSE [this EXCEPT !.colors[inY + 1][inX + 1] = inColor]

\* this.getColor(inX, inY): a reference, Null outside the stored grid.
MinimalView_getColor(this, inX, inY) ==
    IF 0 > inX \/ 0 > inY \/ inY >= Len(this.colors) THEN Null
    ELSE IF inX >= Len(this.colors[inY + 1]) THEN Null
    ELSE this.colors[inY + 1][inX + 1]

\* The (x, y) pairs visited by `for x in xs { for y in ys { ... } }`.
LoopPairs(xs, ys) ==
    Flatten(Tuple([i \in 1..Len(xs) |-> Tuple([j \in 1..Len(ys) |-> <<xs[i], ys[j]>>])]))

MinimalView_fill(this, inColor) ==
    LET step(v, p) == MinimalView_setColor(v, p[1], p[2], inColor)
    IN  FoldLeft(step, this,
                 LoopPairs(Range(0, MinimalView_getWidth(this) - 1),
                           Range(0, MinimalView_getHeight(this) - 1)))

\* A variant of imageToString that walks columns outermost.
MinimalView_imageToString_columns(heap, this) ==
    LET pixel(p) ==
            LET oColor == heap[MinimalView_getColor(this, p[1], p[2])]
            IN  NumberToString(oColor.r) \o <<",">> \o NumberToString(oColor.g) \o <<",">>
                \o NumberToString(oColor.b) \o <<",">> \o NumberToString(oColor.a) \o <<";">>
        xy == LoopPairs(Range(0, MinimalView_getWidth(this) - 1),
                        Range(0, MinimalView_getHeight(this) - 1))
    IN  NatToString(MinimalView_getWidth(this)) \o <<";">>
        \o NatToString(MinimalView_getHeight(this)) \o <<";">>
        \o Flatten(Tuple([k \in 1..Len(xy) |-> pixel(xy[k])]))

\* this.imageToString(): "w;h;" then one "r,g,b,a;" per pixel, rows outermost.
\* (Every coordinate inside width x height holds a color in this model, so
\* the property reads of oColor do not throw.)
MinimalView_imageToString(heap, this) ==
    LET pixel(p) ==
            LET oColor == heap[MinimalView_getColor(this, p[2], p[1])]
            IN  NumberToString(oColor.r) \o <<",">> \o NumberToString(oColor.g) \o <<",">>
                \o NumberToString(oColor.b) \o <<",">> \o NumberToString(oColor.a) \o <<";">>
        yx == LoopPairs(Range(0, MinimalView_getHeight(this) - 1),
                        Range(0, MinimalView_getWidth(this) - 1))
    IN  NatToString(MinimalView_getWidth(this)) \o <<";">>
        \o NatToString(MinimalView_getHeight(this)) \o <<";">>
        \o Flatten(Tuple([k \in 1..Len(yx) |-> pixel(yx[k])]))

NullString == <<"n", "u", "l", "l">>

\* The write of one well-formed pixel group: a new Color from the four
\* fields, stored at xPos, yPos, and the position advanced.
imageFromString_write(st, oColorArray, imageWidth) ==
    [heap |-> Append(st.heap, [NewColor EXCEPT !.r = parseInt(oColorArray[1]),
                                               !.g = parseInt(oColorArray[2]),
                                               !.b = parseInt(oColorArray[3]),
                                               !.a = parseFloat(oColorArray[4])]),
     view |-> MinimalView_setColor(st.view, st.xPos, st.yPos, Len(st.heap) + 1),
     xPos |-> IF (st.xPos + 1) % imageWidth = 0 THEN 0 ELSE st.xPos + 1,
     yPos |-> IF (st.xPos + 1) % imageWidth = 0 THEN st.yPos + 1 ELSE st.yPos]

\* The body of imageFromString's loop for one pixel group: st carries the
\* heap, the view and the write position xPos, yPos.
imageFromString_group(st, oColorString, imageWidth) ==
    Then(Split(oColorString, ","), LAMBDA oColorArray :
        IF Len(oColorArray) = 4 /\ oColorArray[1] # NullString
        THEN imageFromString_write(st, oColorArray, imageWidth)
        ELSE st)

\* imageFromString after the split of the string and the parse of the two
\* leading fields.
imageFromString_data(heap, this, imageData, imageWidth, imageHeight) ==
    IF \/ ~Truthy(imageWidth)
       \/ ~Truthy(imageHeight)
       \/ imageWidth # QInt(MinimalView_getWidth(this))
       \/ imageHeight # QInt(MinimalView_getHeight(this))
    THEN [heap |-> heap, view |-> this]
    ELSE IF Len(imageData) # (imageWidth.n * imageHeight.n) + 3
    THEN [heap |-> heap, view |-> this]
    ELSE Then(FoldLeft(LAMBDA st, loop :
                           imageFromString_group(st, imageData[loop + 3], imageWidth.n),
                       [heap |-> heap, view |-> this, xPos |-> 0, yPos |-> 0],
                       Range(0, imageWidth.n * imageHeight.n - 1)),
              LAMBDA done : [heap |-> done.heap, view |-> done.view])

\* this.imageFromString(inString).  Gives the new heap and the view.
MinimalView_imageFromString(heap, this, inString) ==
    IF inString = <<>> THEN [heap |-> heap, view |-> this]
    ELSE Then(Split(inString, ";"), LAMBDA imageData :
            IF Len(imageData) < 3 THEN [heap |-> heap, view |-> this]
            ELSE imageFromString_data(heap, this, imageData,
                                      parseInt(imageData[1]), parseInt(imageData[2])))

-----------------------------------------------------------------------------
(* Filters.  Every filter maps an execution environment e to the one after *)
(* the call.  e.heap: the Color objects; e.views: the surfaces by name;    *)
(* e.tolerance, e.oNewColor: the two global variables the code assigns     *)
(* without `var`; e.filters: which callbacks of the Filters object are set;*)
(* e.out: the callback invocations made so far, in order.                  *)

GetColor(e, v, inX, inY) == MinimalView_getColor(e.views[v], inX, inY)

SetColor(e, v, inX, inY, ref) ==
    [e EXCEPT !.views[v] = MinimalView_setColor(@, inX, inY, ref)]

\* Store a newly created Color object at (inX, inY) of view v.
SetNewColor(e, v, inX, inY, color) ==
    SetColor([e EXCEPT !.heap = Append(@, color)], v, inX, inY, Len(e.heap) + 1)

Width(e, v) == MinimalView_getWidth(e.views[v])

Height(e, v) == MinimalView_getHeight(e.views[v])

\* if (this.progress) this.progress(inFilterName, inProgress)
Progress(e, inFilterName, inProgress) ==
    IF e.filters.progress
    THEN [e EXCEPT !.out = Append(@, [fn |-> "progress", name |-> inFilterName,
                                      arg |-> <<inProgress>>])]
    ELSE e

\* if (this.warn) this.warn(inFilterName, "Null color found at row R column C.")
Warn(e, inFilterName, row, column) ==
    IF e.filters.warn
    THEN [e EXCEPT !.out = Append(@, [fn |-> "warn", name |-> inFilterName,
                                      arg |-> <<row, column>>])]
    ELSE e

\* A property read or a method call on null: the TypeError ends the filter
\* call, and the environment stays as the call had left it by then.
Throw(e) == [e EXCEPT !.thrown = "TypeError"]

Thrown(e) == e.thrown # ""

\* The percentage that remains to be done.
CeilPercent_remaining(i, n) == QSub(QInt(100), MathCeil(QMul(QDiv(i, n), QInt(100))))

\* Math.ceil((i / n) * 100) and Math.round((i / n) * 100)
CeilPercent(i, n) == MathCeil(QMul(QDiv(i, n), QInt(100)))

RoundPercent(i, n) == MathRound(QMul(QDiv(i, n), QInt(100)))

\* for (o in outer) { e = Before(e, o); for (i in inner) e = Body(e, o, i) }
ScanInner(Body(_, _, _), e, o, inner) ==
    LET step(a, i) == Body(a, o, i)
    IN  FoldLeft(step, e, inner)

Scan(Before(_, _), Body(_, _, _), e, outer, inner) ==
    LET step(a, o) == ScanInner(Body, Before(a, o), o, inner)
    IN  FoldLeft(step, e, outer)

Filters_copy(e, src, dst) ==
    LET before(a, x) == Progress(a, "Copy", RoundPercent(QInt(x), QInt(Width(a, src))))
        body(a, x, y) == SetColor(a, dst, x, y, GetColor(a, src, x, y))
    IN  Scan(before, body, e, Range(0, Width(e, src) - 1), Range(0, Height(e, src) - 1))

\* new Array(256+1).join('0').split('').map(parseFloat): joining 257 empty
\* slots with '0' gives a string of 256 characters, hence 256 buckets.
ArraySlots == 256 + 1

\* A join that made one character for every slot.
JoinedLength_slots(slots) == slots

JoinedLength(slots) == slots - 1

HistogramResult ==
    Then(Tuple([i \in 1..JoinedLength(ArraySlots) |-> parseFloat(<<"0">>)]),
         LAMBDA zeros : [red |-> zeros, green |-> zeros, blue |-> zeros, alpha |-> zeros])

\* array[index] = array[index] + 1 for an index inside the array.
Increment(array, index) == [array EXCEPT ![index.n + 1] = QAdd(@, QInt(1))]

Filters_histogram_pixel(hr, oColor) ==
    [red   |-> Increment(hr.red, oColor.r),
     green |-> Increment(hr.green, oColor.g),
     blue  |-> Increment(hr.blue, oColor.b),
     alpha |-> Increment(hr.alpha, MathRound(QMul(oColor.a, QInt(255))))]

\* this.histogram(inView): the environment after the call (progress
\* callbacks) and the HistogramResult.
Filters_histogram(e, v) ==
    LET before(a, x) ==
            [a EXCEPT !.e = Progress(a.e, "Histogram", CeilPercent(QInt(x), QInt(Width(e, v))))]
        body(a, x, y) ==
            LET ref == GetColor(e, v, x, y)
            IN  IF ref = Null THEN a
                ELSE [a EXCEPT !.result = Filters_histogram_pixel(a.result, e.heap[ref])]
    IN  Scan(before, body, [e |-> e, result |-> HistogramResult],
             Range(0, Width(e, v) - 1), Range(0, Height(e, v) - 1))

\* The buckets as they are, nothing added up.
RunningSums_none(array) == array

\* The sums taken from the last bucket down: sums[i] is
\* array[i] + ... + array[n].
RECURSIVE RunningSums_falling(_)
RunningSums_falling(array) ==
    IF Len(array) <= 1 THEN array
    ELSE LET m == Len(array) \div 2
             left == RunningSums_falling(SubSeq(array, 1, m))
             right == RunningSums_falling(SubSeq(array, m + 1, Len(array)))
         IN  Tuple([i \in 1..m |-> QAdd(left[i], right[1])]) \o right

\* The running sums of an array, bucket by bucket: sums[i] is
\* array[1] + ... + array[i].  Computed by halves; the sums are exact, so
\* the grouping of the additions does not change them.
RECURSIVE RunningSums(_)
RunningSums(array) ==
    IF Len(array) <= 1 THEN Tuple([i \in 1..Len(array) |-> QAdd(QInt(0), array[i])])
    ELSE LET m == Len(array) \div 2
             left == RunningSums(SubSeq(array, 1, m))
             right == RunningSums(SubSeq(array, m + 1, Len(array)))
         IN  left \o Tuple([i \in 1..Len(right) |-> QAdd(left[m], right[i])])

\* result[i] = sums[i] for every index of sums, in a fresh HistogramResult array.
AssignPrefix(fresh, sums) ==
    Tuple([i \in 1..(IF Len(sums) > Len(fresh) THEN Len(sums) ELSE Len(fresh)) |->
              IF i <= Len(sums) THEN sums[i] ELSE fresh[i]])

\* A bucket read past the end of a shorter channel array is undefined.
PadTo(array, n) == Tuple([i \in 1..n |-> IF i <= Len(array) THEN array[i] ELSE Undefined])

\* The progress callbacks of a loop that does nothing else with the
\* environment: one per percentage, in order.
ProgressEach(e, inFilterName, percentages) ==
    IF e.filters.progress
    THEN [e EXCEPT !.out = @ \o Tuple([k \in 1..Len(percentages) |->
                                         [fn |-> "progress", name |-> inFilterName,
                                          arg |-> <<percentages[k]>>]])]
    ELSE e

\* The four channels summed into the arrays of a fresh HistogramResult; a
\* channel shorter than red is read as undefined past its end.
SumChannels(fresh, inHistogram, n) ==
    [red   |-> AssignPrefix(fresh.red, RunningSums(inHistogram.red)),
     green |-> AssignPrefix(fresh.green, RunningSums(PadTo(inHistogram.green, n))),
     blue  |-> AssignPrefix(fresh.blue, RunningSums(PadTo(inHistogram.blue, n))),
     alpha |-> AssignPrefix(fresh.alpha, RunningSums(PadTo(inHistogram.alpha, n)))]

\* The histogram handed back as it came.
Filters_sumHistogram_unsummed(e, inHistogram) == [e |-> e, result |-> inHistogram]

Filters_sumHistogram(e, inHistogram) ==
    [e |-> ProgressEach(e, "SumHistogram",
                        Tuple([k \in 1..Len(inHistogram.red) |->
                                  CeilPercent(QInt(k - 1), QInt(Len(inHistogram.red)))])),
     result |-> SumChannels(HistogramResult, inHistogram, Len(inHistogram.red))]

Filters_blend(e, src, blend, dst, inBlendMode) ==
    LET before(a, x) == Progress(a, "Blend", CeilPercent(QInt(x), QInt(Width(a, src))))
        body(a, x, y) ==
            LET oColor      == GetColor(a, src, x, y)
                oBlendColor == GetColor(a, blend, x, y)
            IN  IF oColor = Null \/ oBlendColor = Null
                THEN Warn(a, "Grayscale", QInt(y), QInt(x))
                ELSE SetColor([a EXCEPT !.heap[oColor] =
                                   Color_blend(@, a.heap[oBlendColor], inBlendMode)],
                              dst, x, y, oColor)
    IN  Scan(before, body, e, Range(0, Width(e, src) - 1), Range(0, Height(e, src) - 1))

\* A bilinearInterpolatePixel that only looks up the pixel at the floor of
\* the coordinate.
Filters_bilinearInterpolatePixel_floored(e, v, inX, inY) ==
    LET ref == GetColor(e, v, MathFloor(inX).n, MathFloor(inY).n)
    IN  IF ref = Null THEN [kind |-> "null", ref |-> Null, color |-> NewColor]
        ELSE [kind |-> "ref", ref |-> ref, color |-> e.heap[ref]]

\* this.bilinearInterpolatePixel(inView, inX, inY) for numbers inX, inY.
\* The result is null, a reference to a Color of the view (the fallback
\* `return inView.getColor(xRounded, yRounded)`) or a new Color.
Filters_bilinearInterpolatePixel(e, v, inX, inY) ==
    LET xRounded == MathRound(inX)
        yRounded == MathRound(inY)
        null     == [kind |-> "null", ref |-> Null, color |-> NewColor]
    IN  IF QGt(QInt(0), xRounded) THEN null
        ELSE IF QGt(QInt(0), yRounded) THEN null
        ELSE IF QLt(QInt(Width(e, v)), xRounded) THEN null
        ELSE IF QLt(QInt(Height(e, v)), yRounded) THEN null
        ELSE
        LET iCeilingX  == MathCeil(inX).n
            iCeilingY  == MathCeil(inY).n
            iFloorX    == MathFloor(inX).n
            iFloorY    == MathFloor(inY).n
            fFractionX == QSub(inX, MathFloor(inX))
            fFractionY == QSub(inY, MathFloor(inY))
            fOneMinusX == QSub(QInt(1), fFractionX)
            fOneMinusY == QSub(QInt(1), fFractionY)
            rFF == GetColor(e, v, iFloorX, iFloorY)
            rFC == GetColor(e, v, iFloorX, iCeilingY)
            rCF == GetColor(e, v, iCeilingX, iFloorY)
            rCC == GetColor(e, v, iCeilingX, iCeilingY)
        IN  IF rFF = Null \/ rFC = Null \/ rCF = Null \/ rCC = Null
            THEN LET ref == GetColor(e, v, xRounded.n, yRounded.n)
                 IN  IF ref = Null THEN null
                     ELSE [kind |-> "ref", ref |-> ref, color |-> e.heap[ref]]
            ELSE
            LET oFF == Color_getNormalizedColor(e.heap[rFF])
                oFC == Color_getNormalizedColor(e.heap[rFC])
                oCF == Color_getNormalizedColor(e.heap[rCF])
                oCC == Color_getNormalizedColor(e.heap[rCC])
                oColor1 == Color_addColor(Color_multiplyNumber(oFF, fOneMinusX),
                                          Color_multiplyNumber(oCF, fFractionX))
                oColor2 == Color_addColor(Color_multiplyNumber(oFC, fOneMinusX),
                                          Color_multiplyNumber(oCC, fFractionX))
                oColor3 == Color_addColor(Color_multiplyNumber(oColor1, fOneMinusY),
                                          Color_multiplyNumber(oColor2, fFractionY))
            IN  [kind |-> "new", ref |-> Null,
                 color |-> Color_get255Color(Color_clamp(oColor3))]

\* inDestinationView.setColor(x, y, <result of bilinearInterpolatePixel>)
SetInterpolated(e, v, inX, inY, res) ==
    IF res.kind = "null" THEN e
    ELSE IF res.kind = "ref" THEN SetColor(e, v, inX, inY, res.ref)
    ELSE SetNewColor(e, v, inX, inY, res.color)

Filters_bilinearInterpolate(e, src, dst) ==
    LET before(a, x) == Progress(a, "SumHistogram", CeilPercent(QInt(x), QInt(Width(a, src))))
        body(a, x, y) ==
            SetInterpolated(a, dst, x, y,
                            Filters_bilinearInterpolatePixel(a, dst, QInt(x), QInt(y)))
    IN  Scan(before, body, Filters_copy(e, src, dst),
             Range(0, Width(e, src) - 1), Range(0, Height(e, src) - 1))

\* equalize's pixel loop, with s the sumHistogram call's outcome.
Filters_equalize_pixels(s, src, dst) ==
    LET oSummedHistogram == s.result
        fArea == QInt(Width(s.e, src) * Height(s.e, src))
        fCoefficient == QDiv(QInt(255), fArea)
        before(a, x) == Progress(a, "Equalize", CeilPercent(QInt(x), QInt(Width(a, src))))
        body(a, x, y) ==
            LET ref == GetColor(a, src, x, y)
            IN  IF ref = Null THEN Warn(a, "Equalize", QInt(y), QInt(x))
                ELSE LET oColor == a.heap[ref]
                         oNewColor ==
                             [NewColor EXCEPT
                                !.r = MathRound(QMul(fCoefficient,
                                                     oSummedHistogram.red[oColor.r.n + 1])),
                                !.g = MathRound(QMul(fCoefficient,
                                                     oSummedHistogram.green[oColor.g.n + 1])),
                                !.b = MathRound(QMul(fCoefficient,
                                                     oSummedHistogram.blue[oColor.b.n + 1])),
                                !.a = oColor.a]
                     IN  SetNewColor(a, dst, x, y, oNewColor)
    IN  Scan(before, body, s.e, Range(0, Width(s.e, src) - 1), Range(0, Height(s.e, src) - 1))

Filters_equalize(e, src, dst) ==
    LET pixels(s) == Filters_equalize_pixels(s, src, dst)
        summed(h) == Then(Filters_sumHistogram(h.e, h.result), pixels)
    IN  Then(Filters_histogram(e, src), summed)

\* inThreshold, inNewHigh, inNewLow are Color values; inThresholdAlpha is a boolean.
Filters_threshold(e, src, dst, inThreshold, inNewHigh, inNewLow, inThresholdAlpha) ==
    LET before(a, x) == Progress(a, "Threshold", CeilPercent(QInt(x), QInt(Width(a, src))))
        body(a, x, y) ==
            LET ref == GetColor(a, src, x, y)
            IN  IF ref = Null THEN Warn(a, "Threshold", QInt(y), QInt(x))
                ELSE LET oColor == a.heap[ref]
                         rgb == [NewColor EXCEPT
                                   !.r = IF QGt(oColor.r, inThreshold.r)
                                         THEN inNewHigh.r ELSE inNewLow.r,
                                   !.g = IF QGt(oColor.g, inThreshold.g)
                                         THEN inNewHigh.g ELSE inNewLow.g,
                                   !.b = IF QGt(oColor.b, inThreshold.b)
                                         THEN inNewHigh.b ELSE inNewLow.b]
                         oNewColor ==
                             IF inThresholdAlpha
                             THEN [rgb EXCEPT !.a = IF QGt(oColor.a, inThreshold.a)
                                                    THEN inNewHigh.a ELSE inNewLow.a]
                             ELSE rgb
                     IN  SetNewColor(a, dst, x, y, oNewColor)
    IN  Scan(before, body, e, Range(0, Width(e, src) - 1), Range(0, Height(e, src) - 1))

\* oColor.grayscale(); inDestinationView.setColor(x, y, oColor): the object
\* the source view holds is changed in place and then shared.
Filters_grayscale_pixel(a, dst, x, y, ref) ==
    SetColor([a EXCEPT !.heap[ref] = Color_grayscale(@)], dst, x, y, ref)

Filters_grayscale(e, src, dst) ==
    LET before(a, x) == Progress(a, "Grayscale", CeilPercent(QInt(x), QInt(Width(a, src))))
        body(a, x, y) ==
            LET ref == GetColor(a, src, x, y)
            IN  IF ref = Null THEN Warn(a, "Grayscale", QInt(y), QInt(x))
                ELSE Filters_grayscale_pixel(a, dst, x, y, ref)
    IN  Scan(before, body, e, Range(0, Width(e, src) - 1), Range(0, Height(e, src) - 1))

Filters_invert(e, src, dst) ==
    LET before(a, x) == Progress(a, "Invert", CeilPercent(QInt(x), QInt(Width(a, src))))
        body(a, x, y) ==
            LET ref == GetColor(a, src, x, y)
            IN  IF ref = Null THEN Warn(a, "Invert", QInt(y), QInt(x))
                ELSE SetColor([a EXCEPT !.heap[ref] = Color_invert(@)], dst, x, y, ref)
    IN  Scan(before, body, e, Range(0, Width(e, src) - 1), Range(0, Height(e, src) - 1))

\* inChannels.indexOf(ch) != -1
Contains(inChannels, ch) == \E i \in 1..Len(inChannels) : inChannels[i] = ch

\* The assignments to the channels of oColor that inChannels names.
Filters_assignChannelValue_color(oColor, inChannels, oValue) ==
    [oColor EXCEPT
       !.r = IF Contains(inChannels, "r") THEN oValue ELSE @,
       !.g = IF Contains(inChannels, "g") THEN oValue ELSE @,
       !.b = IF Contains(inChannels, "b") THEN oValue ELSE @,
       !.a = IF Contains(inChannels, "a")
             THEN QDiv(parseFloat(NumberToString(oValue)), QInt(255)) ELSE @]

\* The loops of assignChannelValue, with oValue the parsed inValue.
Filters_assignChannelValue_loops(e, src, dst, inChannels, oValue) ==
    LET before(a, x) ==
            Progress(a, "AssignChannelValue", CeilPercent(QInt(x), QInt(Width(a, src))))
        body(a, x, y) ==
            LET ref == GetColor(a, src, x, y)
            IN  IF ref = Null THEN Warn(a, "Invert", QInt(y), QInt(x))
                ELSE SetColor([a EXCEPT !.heap[ref] =
                                   Filters_assignChannelValue_color(@, inChannels, oValue)],
                              dst, x, y, ref)
    IN  Scan(before, body, e, Range(0, Width(e, src) - 1), Range(0, Height(e, src) - 1))

\* inChannels and inValue are strings.
Filters_assignChannelValue(e, src, dst, inChannels, inValue) ==
    Then(parseInt(inValue),
         LAMBDA oValue : Filters_assignChannelValue_loops(e, src, dst, inChannels, oValue))

aQuickMask == << <<-1, 0, -1>>, <<0, 4, 0>>, <<-1, 0, -1>> >>

\* detectEdges' two loops over the mask at the interior pixel (x, y): the
\* environment, the weighted sum of the neighbours and the last alpha.
Filters_detectEdges_sum(e, src, x, y) ==
    LET cell(acc, p) ==
            LET ref == GetColor(e, src, x + p[1], y + p[2])
            IN  IF ref = Null
                THEN [acc EXCEPT !.e = Warn(@, "DetectEdges", QInt(y), QInt(x))]
                ELSE [acc EXCEPT
                        !.fAlphaValue = Color_getNormalizedColor(e.heap[ref]).a,
                        !.oSumColor = Color_addColor(@,
                            Color_multiplyNumber(Color_getNormalizedColor(e.heap[ref]),
                                                 QInt(aQuickMask[p[1] + 2][p[2] + 2])))]
    IN  FoldLeft(cell,
                 [e |-> e,
                  oSumColor |-> Color_assignNumber(Color_getNormalizedColor(NewColor), QInt(0)),
                  fAlphaValue |-> QInt(1)],
                 LoopPairs(Range(-1, 1), Range(-1, 1)))

\* oNewColor = ...: the assignment has no `var`, so it writes a global;
\* then inDestinationView.setColor(x, y, oNewColor).
Filters_detectEdges_store(a, dst, x, y, oNewColor) ==
    SetNewColor([a EXCEPT !.oNewColor = [set |-> TRUE, color |-> oNewColor]],
                dst, x, y, oNewColor)

\* A detectEdges that stores the gray mask sum whatever the luminances.
Filters_detectEdges_compare_ungated(done, dst, x, y, oOutColor, oGraySumColor) ==
    Filters_detectEdges_store(done.e, dst, x, y,
        [Color_get255Color(oGraySumColor) EXCEPT !.a = done.fAlphaValue])

\* The comparison of the two luminances and the write that follows it.
Filters_detectEdges_compare(done, dst, x, y, oOutColor, oGraySumColor) ==
    IF QGt(oGraySumColor.r, oOutColor.r)
    THEN Filters_detectEdges_store(done.e, dst, x, y,
             [Color_get255Color(oGraySumColor) EXCEPT !.a = done.fAlphaValue])
    ELSE done.e

\* detectEdges for the interior pixel (x, y), whose own color is there.
Filters_detectEdges_pixel(e, src, dst, x, y) ==
    Then(Filters_detectEdges_sum(e, src, x, y), LAMBDA done :
        Filters_detectEdges_compare(done, dst, x, y,
            Color_grayscale(Color_getNormalizedColor(e.heap[GetColor(e, src, x, y)])),
            Color_grayscale(Color_clamp(done.oSumColor))))

\* inSourceView.getColor(x, y).getNormalizedColor() is the first use of the
\* pixel: with no color at (x, y) it is a method call on null.
Filters_detectEdges(e, src, dst) ==
    LET before(a, x) ==
            IF Thrown(a) THEN a
            ELSE Progress(a, "DetectEdges", CeilPercent(QInt(x), QInt(Width(a, src))))
        body(a, x, y) ==
            IF Thrown(a) THEN a
            ELSE IF GetColor(a, src, x, y) = Null THEN Throw(a)
            ELSE Filters_detectEdges_pixel(a, src, dst, x, y)
    IN  Scan(before, body, e, Range(1, Width(e, src) - 2), Range(1, Height(e, src) - 2))

\* var fillColor = (inFillColor)? inFillColor : new Color(255, 255, 255, 1.0, false);
\* inFillColor is a reference to the caller's Color object, Null when the
\* argument is left out.  Gives the environment and the reference fillColor.
FillColor(e, inFillColor) ==
    IF inFillColor # Null THEN [e |-> e, ref |-> inFillColor]
    ELSE [e |-> [e EXCEPT !.heap = Append(@, Color(QInt(255), QInt(255), QInt(255), QInt(1)))],
          ref |-> Len(e.heap) + 1]

\* inDestinationView.backgroundColor = fillColor; inDestinationView.fill();
\* fill is called without an argument, so its inColor is undefined.
FillBackground(view, fillColor) ==
    MinimalView_fill([view EXCEPT !.backgroundColor = fillColor], Null)

Filters_translate(e, src, dst, inOffsetX, inOffsetY, inFillColor) ==
    LET fc == FillColor(e, inFillColor)
        before(a, y) == Progress(a, "Translate", CeilPercent(QInt(y), QInt(Height(a, src))))
        body(a, y, x) ==
            SetColor(a, dst, x + inOffsetX, y + inOffsetY, GetColor(a, src, x, y))
    IN  Scan(before, body, [fc.e EXCEPT !.views[dst] = FillBackground(@, fc.ref)],
             Range(0, Height(e, src) - 1), Range(0, Width(e, src) - 1))

\* Math.cos and Math.sin of inAngle / 57.29577951, for the one angle whose
\* cosine and sine are rational in floating point as well: 0 degrees.
RotationCos(inAngle) == IF inAngle = QInt(0) THEN QInt(1) ELSE NaN

RotationSin(inAngle) == IF inAngle = QInt(0) THEN QInt(0) ELSE NaN

\* The end of the pixel loops of rotate and scale: a null result warns and
\* leaves the destination pixel alone, any other result is stored.
StoreInterpolated(a, dst, inFilterName, x, y, fX, fY, oNewColor) ==
    IF oNewColor.kind = "null" THEN Warn(a, inFilterName, fY, fX)
    ELSE SetInterpolated(a, dst, x, y, oNewColor)

\* The source pixel (fX, fY) interpolated into the destination pixel (x, y).
InterpolateInto(a, src, dst, inFilterName, x, y, fX, fY) ==
    StoreInterpolated(a, dst, inFilterName, x, y, fX, fY,
                      Filters_bilinearInterpolatePixel(a, src, fX, fY))

\* An fNewX that does not add the rotation point back.
Filters_rotate_newX_unpivoted(fX, fY, px, py, fCosA, fSinA) ==
    QSub(QSub(QMul(fX, fCosA), QMul(fY, fSinA)), QMul(px, fCosA))

\* fNewX and fNewY of rotate.
Filters_rotate_newX(fX, fY, px, py, fCosA, fSinA) ==
    QAdd(QAdd(QSub(QSub(QMul(fX, fCosA), QMul(fY, fSinA)), QMul(px, fCosA)), px),
         QMul(py, fSinA))

Filters_rotate_newY(fX, fY, px, py, fCosA, fSinA) ==
    QAdd(QSub(QSub(QAdd(QMul(fY, fCosA), QMul(fX, fSinA)), QMul(px, fSinA)),
              QMul(py, fCosA)), py)

\* The environment with a fill color object and the destination filled.
Filled(fc, dst) == [fc.e EXCEPT !.views[dst] = FillBackground(@, fc.ref)]

Filters_rotate(e, src, dst, inRotationPointX, inRotationPointY, inAngle, inFillColor) ==
    LET before(a, y) == Progress(a, "Rotate", CeilPercent(QInt(y), QInt(Height(a, src))))
        body(a, y, x) ==
            InterpolateInto(a, src, dst, "Rotate", x, y,
                Filters_rotate_newX(QInt(x), QInt(y), inRotationPointX, inRotationPointY,
                                    RotationCos(inAngle), RotationSin(inAngle)),
                Filters_rotate_newY(QInt(x), QInt(y), inRotationPointX, inRotationPointY,
                                    RotationCos(inAngle), RotationSin(inAngle)))
    IN  Scan(before, body, Filled(FillColor(e, inFillColor), dst),
             Range(0, Height(e, src) - 1), Range(0, e.views[src].width - 1))

\* The values 0, 1, 2, ... of a counter i running while i < limit.
CountBelow(limit) == Range(0, MathCeil(limit).n - 1)

Filters_scale(e, src, dst, inXScale, inYScale, inFillColor) ==
    LET before(a, y) ==
            Progress(a, "Scale", CeilPercent(QInt(y), QMul(QInt(Height(e, src)), inYScale)))
        body(a, y, x) ==
            InterpolateInto(a, src, dst, "Scale", x, y,
                            QDiv(QInt(x), inXScale), QDiv(QInt(y), inYScale))
    IN  Scan(before, body, FillColor(e, inFillColor).e,
             CountBelow(QMul(QInt(Height(e, src)), inYScale)),
             CountBelow(QMul(QInt(Width(e, src)), inXScale)))

\* if (0 < (iYLoop + sYNeighbor)): whether the cells of this row are examined.
Filters_erosion_rowCounted(iYLoop, sYNeighbor) == 0 < (iYLoop + sYNeighbor)

\* Some neighbor the count reads at pixel (x, y) has no color:
\* oNeighborColor.r is then a property read on null.
Filters_erosion_nullNeighbor(e, src, x, y) ==
    \E sYNeighbor \in -1..1, sXNeighbor \in -1..1 :
        /\ Filters_erosion_rowCounted(y, sYNeighbor)
        /\ GetColor(e, src, x + sXNeighbor, y + sYNeighbor) = Null

\* The count erosion compares with the threshold at pixel (x, y).
Filters_erosion_count(e, src, x, y, inTolerance, inNeighborColor) ==
    LET cell(sCount, p) ==
            IF Filters_erosion_rowCounted(y, p[1])
            THEN LET oNeighborColor == e.heap[GetColor(e, src, x + p[2], y + p[1])]
                 IN  IF /\ isKindaSortaEqual(inNeighborColor.r, oNeighborColor.r, inTolerance)
                        /\ isKindaSortaEqual(inNeighborColor.g, oNeighborColor.g, inTolerance)
                        /\ isKindaSortaEqual(inNeighborColor.b, oNeighborColor.b, inTolerance)
                     THEN sCount + 1 ELSE sCount
            ELSE sCount
    IN  FoldLeft(cell, 0, LoopPairs(Range(-1, 1), Range(-1, 1)))

\* inErosionColor, inNeighborColor are Color values; inReplacementColor is a
\* reference to the caller's Color object; inThreshold, inTolerance numbers.
Filters_erosion(e, src, dst, inErosionColor, inThreshold, inTolerance, inNeighborColor, inReplacementColor) ==
    LET before(a, y) ==
            IF Thrown(a) THEN a
            ELSE Progress(a, "Erosion", CeilPercent(QInt(y), QInt(Height(a, src))))
        body(a, y, x) ==
            LET ref    == GetColor(a, src, x, y)
                oColor == a.heap[ref]
                copied == SetColor(a, dst, x, y, ref)
                after  == [copied EXCEPT
                             !.tolerance = Color_isEqual_global(@, inTolerance)]
            IN  IF Thrown(a) THEN a
                ELSE IF ref = Null THEN Throw(a)
                ELSE IF Color_isEqual(oColor, inErosionColor, inTolerance, a.tolerance)
                THEN IF Filters_erosion_nullNeighbor(a, src, x, y) THEN Throw(after)
                     ELSE IF QGt(QInt(Filters_erosion_count(a, src, x, y, inTolerance,
                                                            inNeighborColor)), inThreshold)
                     THEN SetColor(after, dst, x, y, inReplacementColor)
                     ELSE after
                ELSE after
    IN  Scan(before, body, e, Range(1, Height(e, src) - 2), Range(1, Width(e, src) - 2))

\* Math.round((i - size / 2 + f + dimension) % dimension)
Filters_maskFilter_wrap(i, size, f, dimension) ==
    MathRound(JsRemainder(QAdd(QAdd(QSub(QInt(i), QDiv(QInt(size), QInt(2))), QInt(f)),
                               QInt(dimension)),
                          QInt(dimension))).n

\* inMask[filterX][filterY], read once inMask[filterX] is known to be a
\* row: an index past the end of the row gives undefined.
Filters_maskFilter_weight(inMask, filterX, filterY) ==
    IF filterY < Len(inMask[filterX + 1]) THEN inMask[filterX + 1][filterY + 1] ELSE Undefined

\* maskFilter's two loops over the mask at the pixel (x, y): the
\* environment, the weighted sums of red, green and blue, the last alpha.
\* filterX runs over inMask[0].length and filterY over inMask.length; where
\* inMask[filterX] is undefined the read of its element is a TypeError.
Filters_maskFilter_sums(a, src, x, y, inMask) ==
    LET cell(acc, f) ==
            LET ref == GetColor(a, src,
                           Filters_maskFilter_wrap(x, Len(inMask[1]), f[1], a.views[src].width),
                           Filters_maskFilter_wrap(y, Len(inMask), f[2], a.views[src].height))
            IN  IF Thrown(acc.e) THEN acc
                ELSE IF ref = Null
                THEN [acc EXCEPT !.e = Warn(@, "MaskFilter", QInt(y), QInt(x))]
                ELSE IF f[1] >= Len(inMask) THEN [acc EXCEPT !.e = Throw(@)]
                ELSE [acc EXCEPT
                        !.red   = QAdd(@, QMul(a.heap[ref].r,
                                               Filters_maskFilter_weight(inMask, f[1], f[2]))),
                        !.green = QAdd(@, QMul(a.heap[ref].g,
                                               Filters_maskFilter_weight(inMask, f[1], f[2]))),
                        !.blue  = QAdd(@, QMul(a.heap[ref].b,
                                               Filters_maskFilter_weight(inMask, f[1], f[2]))),
                        !.alpha = a.heap[ref].a]
    IN  FoldLeft(cell,
                 [e |-> a, red |-> QInt(0), green |-> QInt(0), blue |-> QInt(0),
                  alpha |-> QInt(0)],
                 LoopPairs(Range(0, Len(inMask[1]) - 1), Range(0, Len(inMask) - 1)))

\* The new Color of the pixel (x, y) from the sums, clamped and stored.
Filters_maskFilter_store(sums, dst, x, y, factor, bias) ==
    SetNewColor(sums.e, dst, x, y,
                Color_clamp(Color(MathRound(QAdd(QMul(factor, sums.red), bias)),
                                  MathRound(QAdd(QMul(factor, sums.green), bias)),
                                  MathRound(QAdd(QMul(factor, sums.blue), bias)),
                                  sums.alpha)))

\* The store, which a TypeError in the loops over the mask never reaches.
Filters_maskFilter_stored(sums, dst, x, y, factor, bias) ==
    IF Thrown(sums.e) THEN sums.e ELSE Filters_maskFilter_store(sums, dst, x, y, factor, bias)

\* inMask is a sequence of rows of numbers; inFactor and inBias are numbers.
Filters_maskFilter(e, src, dst, inMask, inFactor, inBias) ==
    LET before(a, x) ==
            IF Thrown(a) THEN a
            ELSE Progress(a, "MaskFilter", CeilPercent(QInt(x), QInt(Width(a, src))))
        body(a, x, y) ==
            IF Thrown(a) THEN a
            ELSE Then(Filters_maskFilter_sums(a, src, x, y, inMask), LAMBDA sums :
                     Filters_maskFilter_stored(sums, dst, x, y,
                                               IF Truthy(inFactor) THEN inFactor ELSE QInt(1),
                                               IF Truthy(inBias) THEN inBias ELSE QInt(0)))
    IN  Scan(before, body, e, Range(0, Width(e, src) - 1), Range(0, Height(e, src) - 1))

-----------------------------------------------------------------------------
(* HistogramResult strings and the mask catalog *)

\* The strings of parts joined with the one-character separator sep.
Join(parts, sep) ==
    Flatten(Tuple([k \in 1..Len(parts) |-> IF k = 1 THEN parts[k] ELSE <<sep>> \o parts[k]]))

HistogramResult_toString(this) ==
    LET channel(array) == Join(Tuple([i \in 1..Len(array) |-> NumberToString(array[i])]), ",")
    IN  channel(this.red) \o <<";">> \o channel(this.green) \o <<";">>
        \o channel(this.blue) \o <<";">> \o channel(this.alpha)

\* result[i] = parseInt(aColorValues[i]) for the channel of one element.
HistogramResult_fromString_channel(hr, colorElementLoop, parsed) ==
    IF colorElementLoop = 1 THEN [hr EXCEPT !.green = AssignPrefix(@, parsed)]
    ELSE IF colorElementLoop = 2 THEN [hr EXCEPT !.blue = AssignPrefix(@, parsed)]
    ELSE IF colorElementLoop = 3 THEN [hr EXCEPT !.alpha = AssignPrefix(@, parsed)]
    ELSE [hr EXCEPT !.red = AssignPrefix(@, parsed)]

HistogramResult_fromString_element(hr, colorElementLoop, colorElement) ==
    Then(Split(colorElement, ","), LAMBDA aColorValues :
        HistogramResult_fromString_channel(hr, colorElementLoop,
            Tuple([j \in 1..Len(aColorValues) |-> parseInt(aColorValues[j])])))

HistogramResult_fromString(this, inString) ==
    Then(Split(inString, ";"), LAMBDA aColorElements :
        FoldLeft(LAMBDA hr, colorElementLoop :
                     HistogramResult_fromString_element(hr, colorElementLoop,
                         aColorElements[colorElementLoop + 1]),
                 this, Range(0, Len(aColorElements) - 1)))

\* A matrix of integers as a matrix of numbers, each multiplied by unit.
Matrix(rows, unit) ==
    Tuple([i \in 1..Len(rows) |-> Tuple([j \in 1..Len(rows[i]) |-> QMul(QInt(rows[i][j]), unit)])])

\* new Masks(): the catalog (blur1's weights are 0.2 = 1/5).
Masks ==
    [blur1 |-> Matrix(<< <<0, 1, 0>>, <<1, 1, 1>>, <<0, 1, 0>> >>, Q(1, 5)),
     blur2 |-> Matrix(<< <<0, 0, 1, 0, 0>>, <<0, 1, 1, 1, 0>>, <<1, 1, 1, 1, 1>>,
                         <<0, 1, 1, 1, 0>>, <<0, 0, 1, 0, 0>> >>, QInt(1)),
     motionBlur |-> Matrix(<< <<1, 0, 0, 0, 0>>, <<0, 1, 0, 0, 0>>, <<0, 0, 1, 0, 0>>,
                              <<0, 0, 0, 1, 0>>, <<0, 0, 0, 0, 1>> >>, QInt(1)),
     findHorizontalEdges |-> Matrix(<< <<0, 0, 0, 0, 0>>, <<0, 0, 0, 0, 0>>, <<-1, -1, 2, 0, 0>>,
                                       <<0, 0, 0, 0, 0>>, <<0, 0, 0, 0, 0>> >>, QInt(1)),
     findVerticalEdges |-> Matrix(<< <<0, 0, -1, 0, 0>>, <<0, 0, -1, 0, 0>>, <<0, 0, 4, 0, 0>>,
                                     <<0, 0, -1, 0, 0>>, <<0, 0, -1, 0, 0>> >>, QInt(1)),
     find45DegreeEdges |-> Matrix(<< <<-1, 0, 0, 0, 0>>, <<0, -2, 0, 0, 0>>, <<0, 0, 6, 0, 0>>,
                                     <<0, 0, 0, -2, 0>>, <<0, 0, 0, 0, -1>> >>, QInt(1)),
     findAllEdges |-> Matrix(<< <<-1, -1, -1>>, <<-1, 8, -1>>, <<-1, -1, -1>> >>, QInt(1)),
     sharpen1 |-> Matrix(<< <<-1, -1, -1>>, <<-1, 9, -1>>, <<-1, -1, -1>> >>, QInt(1)),
     sharpen2 |-> Matrix(<< <<-1, -1, -1, -1, -1>>, <<-1, 2, 2, 2, -1>>, <<-1, 2, 8, 2, -1>>,
                            <<-1, 2, 2, 2, -1>>, <<-1, -1, -1, -1, -1>> >>, QInt(1)),
     edges |-> Matrix(<< <<1, 1, 1>>, <<1, -7, 1>>, <<1, 1, 1>> >>, QInt(1)),
     emboss1 |-> Matrix(<< <<-1, -1, 0>>, <<-1, 0, 1>>, <<0, 1, 1>> >>, QInt(1)),
     emboss2 |-> Matrix(<< <<-1, -1, -1, -1, 0>>, <<-1, -1, -1, 0, 1>>, <<-1, -1, 0, 1, 1>>,
                           <<-1, 0, 1, 1, 1>>, <<0, 1, 1, 1, 1>> >>, QInt(1)),
     mean |-> Matrix(<< <<1, 1, 1>>, <<1, 1, 1>>, <<1, 1, 1>> >>, QInt(1))]

MaskNames == DOMAIN Masks

-----------------------------------------------------------------------------
(* The worker's message listener.  A request is the record data; the       *)
(* parameters of its command are the record data.params (strings are       *)
(* sequences of characters, <<>> for a parameter left out).  A posted      *)
(* message records its own keys in the field named fields: an object       *)
(* message has them, a message that is a bare string has none.             *)

\* self.postMessage({'cmd': 'Progress', 'msg': inProgress, 'filterName': inFilterName, 'tag': data.tag})
ProgressMessage(data, call) ==
    [kind |-> "object", cmd |-> "Progress", number |-> call.arg[1], text |-> <<>>,
     filterName |-> call.name, fields |-> {"cmd", "msg", "filterName", "tag"},
     tag |-> data.tag]

\* self.postMessage({'cmd': 'Result...Filter', 'msg': <string>, 'tag': data.tag})
ResultMessage(data, resultCmd, msg) ==
    [kind |-> "object", cmd |-> resultCmd, number |-> NaN, text |-> msg,
     filterName |-> "", fields |-> {"cmd", "msg", "tag"}, tag |-> data.tag]

UnknownCommandText ==
    <<"U", "n", "k", "n", "o", "w", "n", " ", "c", "o", "m", "m", "a", "n", "d", ":", " ">>

\* 'Unknown command: ' + data.msg, data.msg being a string.
\* self.postMessage(<that string>): the message is the string itself.
UnknownCommandMessage(data) ==
    [kind |-> "string", cmd |-> "", number |-> NaN, text |-> UnknownCommandText \o data.msg,
     filterName |-> "", fields |-> {}, tag |-> ""]

\* The messages posted for one command: the progress callback posts during
\* the filter call, the result is posted by the statement after it.
Posted(data, e, resultCmd, msg) ==
    Tuple([k \in 1..Len(e.out) |-> ProgressMessage(data, e.out[k])])
    \o <<ResultMessage(data, resultCmd, msg)>>

\* What a request leaves behind: the posted messages and the two globals.
Handled(data, e, resultCmd, msg) ==
    [posted |-> Posted(data, e, resultCmd, msg),
     globals |-> [tolerance |-> e.tolerance, oNewColor |-> e.oNewColor]]

\* oMinimalViewDestination.imageToString() after the filter call.
DestinationString(e) == MinimalView_imageToString(e.heap, e.views["dst"])

\* A Color object the handler creates, added to the heap of e.
Allocate(e, color) == [e |-> [e EXCEPT !.heap = Append(@, color)], ref |-> Len(e.heap) + 1]

\* var oFillColor = new Color(255, 255, 255, 1.0, false);
\* if (data.fillColor) oFillColor.fromStringWithAlpha(data.fillColor);
WorkerFillColor(e, fillColor) ==
    LET white == Color(QInt(255), QInt(255), QInt(255), QInt(1))
    IN  Allocate(e, IF fillColor # <<>> THEN Color_fromStringWithAlpha(white, fillColor)
                    ELSE white)

\* The environment of one request: new Filters() with progress and log set,
\* the source and destination views, the source loaded from the image
\* string; the globals are the ones the earlier requests left.
WorkerEnvironment(globals, data) ==
    Then(MinimalView(<<>>, data.width, data.height), LAMBDA s :
    Then(MinimalView(s.heap, data.width, data.height), LAMBDA d :
    Then(MinimalView_imageFromString(d.heap, s.view, data.imageString), LAMBDA l :
        [heap |-> l.heap, views |-> [src |-> l.view, dst |-> d.view],
         tolerance |-> globals.tolerance, oNewColor |-> globals.oNewColor,
         filters |-> [progress |-> TRUE, warn |-> FALSE, log |-> TRUE], out |-> <<>>,
         thrown |-> ""])))

\* Each command: the filter call, then the result message posted from the
\* environment the call has left.
Worker_AssignChannelValue(data, e) ==
    LET reply(a) == Handled(data, a, "ResultAssignChannelValueFilter", DestinationString(a))
    IN  Then(Filters_assignChannelValue(e, "src", "dst", data.params.channels,
                                        data.params.value), reply)

Worker_BilinearInterpolate(data, e) ==
    LET reply(a) == Handled(data, a, "ResultBilinearInterpolateFilter", DestinationString(a))
    IN  Then(Filters_bilinearInterpolate(e, "src", "dst"), reply)

\* The blendMode string as the blendOperation it names.
BlendMode(blendMode) ==
    CASE blendMode = "CROSS" -> CROSS
      [] blendMode = "ADDITIVE" -> ADDITIVE
      [] blendMode = "ADDITIVE_ALPHA" -> ADDITIVE_ALPHA
      [] blendMode = "MULTIPLIED" -> MULTIPLIED

\* The environment with the blend view added, loaded from data.imageBlendString.
WithBlendView(data, e) ==
    Then(MinimalView(e.heap, data.width, data.height), LAMBDA b :
    Then(MinimalView_imageFromString(b.heap, b.view, data.params.imageBlendString), LAMBDA l :
        [e EXCEPT !.heap = l.heap,
                  !.views = [src |-> e.views["src"], dst |-> e.views["dst"],
                             blend |-> l.view]]))

Worker_Blend(data, e) ==
    LET reply(a) == Handled(data, a, "ResultBlendFilter", DestinationString(a))
        blend(withBlend) ==
            Then(Filters_blend(withBlend, "src", "blend", "dst",
                               BlendMode(data.params.blendMode)), reply)
    IN  Then(WithBlendView(data, e), blend)

Worker_Copy(data, e) ==
    LET reply(a) == Handled(data, a, "ResultCopyFilter", DestinationString(a))
    IN  Then(Filters_copy(e, "src", "dst"), reply)

Worker_DetectEdges(data, e) ==
    LET reply(a) == Handled(data, a, "ResultDetectEdgesFilter", DestinationString(a))
    IN  Then(Filters_detectEdges(e, "src", "dst"), reply)

Worker_Equalize(data, e) ==
    LET reply(a) == Handled(data, a, "ResultEqualizeFilter", DestinationString(a))
    IN  Then(Filters_equalize(e, "src", "dst"), reply)

Worker_Erosion(data, e) ==
    LET reply(a) == Handled(data, a, "ResultErosionFilter", DestinationString(a))
        erode(oReplacementColor) ==
            Then(Filters_erosion(oReplacementColor.e, "src", "dst",
                                 Color_fromStringWithAlpha(NewColor, data.params.erosionColor),
                                 data.params.threshold, data.params.tolerance,
                                 Color_fromStringWithAlpha(NewColor, data.params.neighborColor),
                                 oReplacementColor.ref), reply)
    IN  Then(Allocate(e, Color_fromStringWithAlpha(NewColor, data.params.replacementColor)),
             erode)

Worker_Grayscale(data, e) ==
    LET reply(a) == Handled(data, a, "ResultGrayscaleFilter", DestinationString(a))
    IN  Then(Filters_grayscale(e, "src", "dst"), reply)

Worker_Histogram(data, e) ==
    LET reply(h) == Handled(data, h.e, "ResultHistogramFilter",
                            HistogramResult_toString(h.result))
    IN  Then(Filters_histogram(e, "src"), reply)

Worker_Invert(data, e) ==
    LET reply(a) == Handled(data, a, "ResultInvertFilter", DestinationString(a))
    IN  Then(Filters_invert(e, "src", "dst"), reply)

\* A data.mask that names no mask of the catalog leaves oMask undefined, and
\* maskFilter's `inMask[0].length` then throws a TypeError out of the
\* listener before anything is posted.
Worker_MaskFilter(data, e) ==
    LET fFactor == IF data.params.factor # <<>> THEN parseFloat(data.params.factor) ELSE QInt(1)
        fBias == IF data.params.bias # <<>> THEN parseFloat(data.params.bias) ELSE QInt(0)
        reply(a) == Handled(data, a, "ResultMaskFilterFilter", DestinationString(a))
    IN  IF data.params.mask \notin MaskNames
        THEN [posted |-> <<>>,
              globals |-> [tolerance |-> e.tolerance, oNewColor |-> e.oNewColor]]
        ELSE Then(Filters_maskFilter(e, "src", "dst", Masks[data.params.mask],
                                     fFactor, fBias), reply)

Worker_Rotate(data, e) ==
    LET reply(a) == Handled(data, a, "ResultRotateFilter", DestinationString(a))
        rotate(oFillColor) ==
            Then(Filters_rotate(oFillColor.e, "src", "dst", data.params.rotationPointX,
                                data.params.rotationPointY, data.params.angle,
                                oFillColor.ref), reply)
    IN  Then(WorkerFillColor(e, data.params.fillColor), rotate)

Worker_Scale(data, e) ==
    LET reply(a) == Handled(data, a, "ResultScaleFilter", DestinationString(a))
        scale(oFillColor) ==
            Then(Filters_scale(oFillColor.e, "src", "dst", data.params.scaleX,
                               data.params.scaleY, oFillColor.ref), reply)
    IN  Then(WorkerFillColor(e, data.params.fillColor), scale)

Worker_SumHistogram(data, e) ==
    LET reply(s) == Handled(data, s.e, "ResultSumHistogramFilter",
                            HistogramResult_toString(s.result))
        sum(oHistogramResult) == Then(Filters_sumHistogram(e, oHistogramResult), reply)
    IN  Then(HistogramResult_fromString(HistogramResult, data.params.histogram), sum)

Worker_Threshold(data, e) ==
    LET oThresholdColor == Color_fromStringWithAlpha(NewColor, data.params.thresholdColor)
        oNewHighColor == Color_fromStringWithAlpha(NewColor, data.params.newHighColor)
        oNewLowColor == Color_fromStringWithAlpha(NewColor, data.params.newLowColor)
        reply(a) == Handled(data, a, "ResultThresholdFilter", DestinationString(a))
    IN  Then(Filters_threshold(e, "src", "dst", oThresholdColor, oNewHighColor,
                               oNewLowColor, data.params.thresholdAlpha), reply)

Worker_Translate(data, e) ==
    LET reply(a) == Handled(data, a, "ResultTranslateFilter", DestinationString(a))
        translate(oFillColor) ==
            Then(Filters_translate(oFillColor.e, "src", "dst", data.params.xOffset,
                                   data.params.yOffset, oFillColor.ref), reply)
    IN  Then(WorkerFillColor(e, data.params.fillColor), translate)

\* The command switch, in the environment of the request.
Dispatch(data, e) ==
    CASE data.cmd = "AssignChannelValue" -> Worker_AssignChannelValue(data, e)
      [] data.cmd = "BilinearInterpolate" -> Worker_BilinearInterpolate(data, e)
      [] data.cmd = "Blend" -> Worker_Blend(data, e)
      [] data.cmd = "Copy" -> Worker_Copy(data, e)
      [] data.cmd = "DetectEdges" -> Worker_DetectEdges(data, e)
      [] data.cmd = "Equalize" -> Worker_Equalize(data, e)
      [] data.cmd = "Erosion" -> Worker_Erosion(data, e)
      [] data.cmd = "Grayscale" -> Worker_Grayscale(data, e)
      [] data.cmd = "Histogram" -> Worker_Histogram(data, e)
      [] data.cmd = "Invert" -> Worker_Invert(data, e)
      [] data.cmd = "MaskFilter" -> Worker_MaskFilter(data, e)
      [] data.cmd = "Rotate" -> Worker_Rotate(data, e)
      [] data.cmd = "Scale" -> Worker_Scale(data, e)
      [] data.cmd = "SumHistogram" -> Worker_SumHistogram(data, e)
      [] data.cmd = "Threshold" -> Worker_Threshold(data, e)
      [] data.cmd = "Translate" -> Worker_Translate(data, e)
      [] OTHER -> [posted |-> <<UnknownCommandMessage(data)>>,
                   globals |-> [tolerance |-> e.tolerance, oNewColor |-> e.oNewColor]]

\* The listener: what handling the request data leaves behind when the
\* globals hold the given values on entry.
OnMessage(globals, data) ==
    LET dispatch(e) == Dispatch(data, e)
    IN  IF data.type # "Filter" THEN [posted |-> <<>>, globals |-> globals]
        ELSE Then(WorkerEnvironment(globals, data), dispatch)

-----------------------------------------------------------------------------
(* Inputs: the surfaces and parameters the callers below pass in *)

\* Surfaces are 1..MaxDim pixels wide and high.
MaxDim == 3

\* The number of pixel patterns a surface is loaded with.
NumPatterns == 3

Dims == 1..MaxDim

Patterns == 0..(NumPatterns - 1)

\* Pixel values: integer r, g, b in 0..255 and an alpha in 0..1.
Palette ==
    << Color(QInt(100), QInt(100), QInt(100), QInt(1)),
       Color(QInt(0), QInt(0), QInt(0), QInt(1)),
       Color(QInt(200), QInt(100), QInt(50), Q(1, 2)),
       Color(QInt(10), QInt(20), QInt(30), QInt(1)) >>

\* Pattern 0 is the uniform surface of Palette[1]; the other patterns vary
\* from pixel to pixel.
Pixel(p, x, y) == Palette[((p * (1 + x + 2 * y)) % Len(Palette)) + 1]

\* A w x h MinimalView whose every pixel (x, y) has been set to its own new
\* Color object holding Pixel(p, x, y).  Gives the new heap and the view.
Image(heap, w, h, p) ==
    LET base == Len(heap)
    IN  [heap |-> heap \o Tuple([k \in 1..(w * h) |-> Pixel(p, (k - 1) % w, (k - 1) \div w)]),
         view |-> [width |-> w, height |-> h,
                   colors |-> Tuple([y \in 1..h |->
                                 Tuple([x \in 1..w |-> base + (y - 1) * w + x])]),
                   backgroundColor |-> Null]]

\* The serialized form of that surface.
ImageString(w, h, p) ==
    LET i == Image(<<>>, w, h, p)
    IN  MinimalView_imageToString(i.heap, i.view)

\* The two globals before any code has assigned them.
PristineGlobals == [tolerance |-> Undefined, oNewColor |-> [set |-> FALSE, color |-> NewColor]]

\* A caller's program state: a source surface of pattern p, a new
\* destination surface of the same size, a blend surface, and a Filters
\* object whose progress and warn callbacks are set.
Environment(w, h, p) ==
    LET s == Image(<<>>, w, h, p)
        d == MinimalView(s.heap, w, h)
        b == Image(d.heap, w, h, (p + 1) % NumPatterns)
    IN  [heap |-> b.heap, views |-> [src |-> s.view, dst |-> d.view, blend |-> b.view],
         tolerance |-> PristineGlobals.tolerance, oNewColor |-> PristineGlobals.oNewColor,
         filters |-> [progress |-> TRUE, warn |-> TRUE, log |-> FALSE], out |-> <<>>,
         thrown |-> ""]

\* What getColor reads at every coordinate of view v: the r, g, b, a of
\* each pixel, row by row (<<>> where getColor gives null).
Grid(e, v) ==
    Tuple([y \in 1..Height(e, v) |->
        Tuple([x \in 1..Width(e, v) |->
            LET ref == GetColor(e, v, x - 1, y - 1)
            IN  IF ref = Null THEN <<>> ELSE RGBA(e.heap[ref])])])

Snapshot(e) == [src |-> Grid(e, "src"), dst |-> Grid(e, "dst")]

-----------------------------------------------------------------------------
(* State *)

VARIABLES
    e,        \* the caller's heap, surfaces, Filters callbacks and the globals
    pc,       \* where the caller is
    call,     \* the last operation called and its arguments
    before,   \* what the surfaces held when that operation was entered
    result,   \* the value the last operation returned
    globals,  \* the worker's global scope
    request,  \* the message the worker is handling
    entry,    \* the worker's globals when the handler was entered
    posted    \* the messages the worker posted for that request, in order

vars == <<e, pc, call, before, result, globals, request, entry, posted>>

workerVars == <<globals, request, entry, posted>>

NoCall == [op |-> "none", args |-> <<>>]

NoRequest ==
    [type |-> "", cmd |-> "", tag |-> "", width |-> 0, height |-> 0, imageString |-> <<>>,
     msg |-> <<>>, params |-> <<>>]

Init ==
    /\ \E w \in Dims, h \in Dims, p \in Patterns : e = Environment(w, h, p)
    /\ pc = "new"
    /\ call = NoCall
    /\ before = Snapshot(e)
    /\ result = <<>>
    /\ globals = PristineGlobals
    /\ request = NoRequest
    /\ entry = PristineGlobals
    /\ posted = <<>>

-----------------------------------------------------------------------------
(* The engine: a caller loads its destination surface or not, and calls   *)
(* one filter (histogram's result may go on into sumHistogram).            *)

\* The caller's frame for one filter call: the operation and its arguments
\* are recorded, with what the surfaces held on entry.
Called(op, args, after, returned) ==
    /\ pc \in {"new", "ready"}
    /\ e' = after
    /\ call' = [op |-> op, args |-> args]
    /\ before' = Snapshot(e)
    /\ result' = returned
    /\ pc' = "done"
    /\ UNCHANGED workerVars

\* The caller puts an image of its own into the destination surface first.
LoadDestination ==
    /\ pc = "new"
    /\ \E l \in {MinimalView_imageFromString(e.heap, e.views["dst"],
                      ImageString(Width(e, "dst"), Height(e, "dst"), NumPatterns - 1))} :
           e' = [e EXCEPT !.heap = l.heap, !.views["dst"] = l.view]
    /\ pc' = "ready"
    /\ UNCHANGED <<call, before, result>>
    /\ UNCHANGED workerVars

Copy == Called("copy", <<>>, Filters_copy(e, "src", "dst"), <<>>)

Histogram ==
    /\ pc \in {"new", "ready"}
    /\ \E h \in {Filters_histogram(e, "src")} :
           /\ e' = h.e
           /\ result' = h.result
    /\ call' = [op |-> "histogram", args |-> <<>>]
    /\ before' = Snapshot(e)
    /\ pc' = "counted"
    /\ UNCHANGED workerVars

SumHistogram ==
    /\ pc = "counted"
    /\ \E s \in {Filters_sumHistogram(e, result)} :
           /\ e' = s.e
           /\ result' = s.result
    /\ call' = [op |-> "sumHistogram", args |-> <<>>]
    /\ before' = Snapshot(e)
    /\ pc' = "done"
    /\ UNCHANGED workerVars

Blend ==
    \E inBlendMode \in {CROSS, ADDITIVE, ADDITIVE_ALPHA, MULTIPLIED} :
        Called("blend", [blendMode |-> inBlendMode],
               Filters_blend(e, "src", "blend", "dst", inBlendMode), <<>>)

BilinearInterpolate ==
    Called("bilinearInterpolate", <<>>, Filters_bilinearInterpolate(e, "src", "dst"), <<>>)

Equalize == Called("equalize", <<>>, Filters_equalize(e, "src", "dst"), <<>>)

Threshold ==
    \E inThresholdAlpha \in BOOLEAN :
        Called("threshold", [thresholdAlpha |-> inThresholdAlpha],
               Filters_threshold(e, "src", "dst",
                                 Color(QInt(50), QInt(50), QInt(50), Q(3, 4)),
                                 Color(QInt(255), QInt(255), QInt(255), QInt(1)),
                                 Color(QInt(0), QInt(0), QInt(0), QInt(0)),
                                 inThresholdAlpha), <<>>)

Grayscale == Called("grayscale", <<>>, Filters_grayscale(e, "src", "dst"), <<>>)

Invert == Called("invert", <<>>, Filters_invert(e, "src", "dst"), <<>>)

AssignChannelValue ==
    \E inChannels \in {<<"r">>, <<"g", "a">>} :
        Called("assignChannelValue", [channels |-> inChannels, value |-> <<"5", "1">>],
               Filters_assignChannelValue(e, "src", "dst", inChannels, <<"5", "1">>), <<>>)

DetectEdges == Called("detectEdges", <<>>, Filters_detectEdges(e, "src", "dst"), <<>>)

\* A color of the caller's that is no pixel of the input surfaces.
CallerColor == Color(QInt(255), QInt(0), QInt(0), QInt(1))

\* translate with the fill color left out or given as the caller's color.
Translate ==
    \E inOffsetX \in -1..1, inOffsetY \in -1..1, given \in BOOLEAN :
        LET fill == Allocate(e, CallerColor)
        IN  Called("translate",
                   [offsetX |-> inOffsetX, offsetY |-> inOffsetY, fillGiven |-> given],
                   Filters_translate(IF given THEN fill.e ELSE e, "src", "dst",
                                     inOffsetX, inOffsetY, IF given THEN fill.ref ELSE Null),
                   <<>>)

Rotate ==
    \E px \in 0..1, py \in 0..1, given \in BOOLEAN :
        LET fill == Allocate(e, CallerColor)
        IN  Called("rotate",
                   [point |-> <<px, py>>, angle |-> QInt(0), fillGiven |-> given],
                   Filters_rotate(IF given THEN fill.e ELSE e, "src", "dst",
                                  QInt(px), QInt(py), QInt(0),
                                  IF given THEN fill.ref ELSE Null),
                   <<>>)

Scale ==
    \E scales \in {<<QInt(1), QInt(1)>>, <<QInt(2), Q(3, 2)>>, <<Q(1, 2), Q(1, 2)>>} :
        Called("scale", [scaleX |-> scales[1], scaleY |-> scales[2]],
               Filters_scale(e, "src", "dst", scales[1], scales[2], Null), <<>>)

\* erosion looking for the color of the uniform surface among neighbours of
\* that color, replacing with the caller's color.
Erosion ==
    \E inThreshold \in {5, 7} :
        LET replacement == Allocate(e, CallerColor)
        IN  Called("erosion",
                   [erosionColor |-> Palette[1], threshold |-> inThreshold,
                    tolerance |-> QInt(0), neighborColor |-> Palette[1],
                    replacementColor |-> CallerColor],
                   Filters_erosion(replacement.e, "src", "dst", Palette[1], QInt(inThreshold),
                                   QInt(0), Palette[1], replacement.ref),
                   <<>>)

\* The 1 x 1 identity kernel, which is no mask of the catalog.
IdentityMask == Matrix(<< <<1>> >>, QInt(1))

MaskFilter ==
    \E inMask \in {IdentityMask, Masks.blur1, Masks.sharpen1} :
        Called("maskFilter", [mask |-> inMask, factor |-> QInt(1), bias |-> QInt(0)],
               Filters_maskFilter(e, "src", "dst", inMask, QInt(1), QInt(0)), <<>>)

Next ==
    \/ LoadDestination
    \/ Copy
    \/ Histogram
    \/ SumHistogram
    \/ Blend
    \/ BilinearInterpolate
    \/ Equalize
    \/ Threshold
    \/ Grayscale
    \/ Invert
    \/ AssignChannelValue
    \/ DetectEdges
    \/ Translate
    \/ Rotate
    \/ Scale
    \/ Erosion
    \/ MaskFilter

Spec == Init /\ [][Next]_vars

-----------------------------------------------------------------------------
(* The worker: a message arrives, then the listener handles it to the end *)

Tags == {"a", "b"}

\* The surfaces the requests carry: the uniform one and a varied one.
WorkerPatterns == {0, 1}

\* "rgba(r, g, b, a)" for the palette's first color with its red one higher:
\* a color within 1 of the uniform surface's pixels and equal to none.
NearColorString ==
    Color_toStringWithAlpha([Palette[1] EXCEPT !.r = QAdd(@, QInt(1))])

\* The commands with the parameters they are sent with.  "Sepia" is no
\* command of the worker and "sharpen3" no mask of its catalog; erosion
\* looks for a color near the uniform surface's or for one far from it.
CommandVariants ==
    {[cmd |-> c, params |-> <<>>] :
        c \in {"BilinearInterpolate", "Copy", "DetectEdges", "Equalize", "Grayscale",
               "Histogram", "Invert", "Sepia"}}
    \cup {[cmd |-> "AssignChannelValue",
           params |-> [channels |-> <<"r", "a">>, value |-> <<"5", "1">>]]}
    \cup {[cmd |-> "Blend",
           params |-> [imageBlendString |-> ImageString(MaxDim, MaxDim, NumPatterns - 1),
                       blendMode |-> m]] : m \in {"CROSS", "MULTIPLIED"}}
    \cup {[cmd |-> "Erosion",
           params |-> [erosionColor |-> v[1],
                       neighborColor |-> Color_toStringWithAlpha(Palette[1]),
                       replacementColor |-> Color_toStringWithAlpha(CallerColor),
                       threshold |-> QInt(5), tolerance |-> v[2]]] :
             v \in {<<NearColorString, QInt(0)>>, <<NearColorString, QInt(1)>>,
                    <<Color_toStringWithAlpha(Palette[4]), QInt(0)>>}}
    \cup {[cmd |-> "MaskFilter", params |-> [mask |-> m, factor |-> <<>>, bias |-> <<>>]] :
             m \in {"blur1", "sharpen3"}}
    \cup {[cmd |-> "Rotate",
           params |-> [rotationPointX |-> QInt(1), rotationPointY |-> QInt(1),
                       angle |-> QInt(0), fillColor |-> <<>>]]}
    \cup {[cmd |-> "Scale",
           params |-> [scaleX |-> QInt(2), scaleY |-> Q(3, 2), fillColor |-> <<>>]]}
    \cup {[cmd |-> "SumHistogram",
           params |-> [histogram |-> <<"1", ",", "2", ",", "3", ";", "0", ",", "1", ";",
                                       "2", ";", "4", ",", "4">>]]}
    \cup {[cmd |-> "Threshold",
           params |-> [thresholdColor |-> Color_toStringWithAlpha(Palette[4]),
                       newHighColor |-> Color_toStringWithAlpha(CallerColor),
                       newLowColor |-> Color_toStringWithAlpha(Palette[2]),
                       thresholdAlpha |-> TRUE]]}
    \cup {[cmd |-> "Translate",
           params |-> [xOffset |-> 1, yOffset |-> 0, fillColor |-> f]] :
             f \in {<<>>, Color_toStringWithAlpha(CallerColor)}}

Request(type, c, tag, p) ==
    [type |-> type, cmd |-> c.cmd, tag |-> tag, width |-> MaxDim, height |-> MaxDim,
     imageString |-> ImageString(MaxDim, MaxDim, p), msg |-> <<"g", "o">>,
     params |-> c.params]

\* The messages sent to the worker: Filter requests, and one message of
\* another type.
WorkerRequests ==
    {Request("Filter", c, tag, p) : c \in CommandVariants, tag \in Tags, p \in WorkerPatterns}
    \cup {Request("Ping", [cmd |-> "Copy", params |-> <<>>], "a", 0)}

InitWorker ==
    /\ e = <<>>
    /\ pc = "idle"
    /\ call = NoCall
    /\ before = <<>>
    /\ result = <<>>
    /\ globals = PristineGlobals
    /\ request = NoRequest
    /\ entry = PristineGlobals
    /\ posted = <<>>

\* A message event is queued for the listener.
Receive ==
    /\ pc = "idle"
    /\ \E data \in WorkerRequests : request' = data
    /\ entry' = globals
    /\ posted' = <<>>
    /\ pc' = "handling"
    /\ UNCHANGED <<e, call, before, result, globals>>

\* The listener runs to its end (or to the exception that ends it).
Handle ==
    /\ pc = "handling"
    /\ \E h \in {OnMessage(globals, request)} :
           /\ posted' = h.posted
           /\ globals' = h.globals
    /\ pc' = "idle"
    /\ UNCHANGED <<e, call, before, result, request, entry>>

NextWorker ==
    \/ Receive
    \/ Handle

SpecWorker == InitWorker /\ [][NextWorker]_vars

-----------------------------------------------------------------------------
(* Serialized surfaces: a caller saves its source surface as a string and  *)
(* loads a payload made from that string into its destination surface.     *)

\* The pixel groups of a serialized surface: the fields after the two
\* leading ones, without the empty field that follows the last ";".
PixelGroups(s) == Then(Split(s, ";"), LAMBDA f : SubSeq(f, 3, Len(f) - 1))

\* A pixel group with "null" in the place of its first field.
NullGroup(group) ==
    Then(Split(group, ","), LAMBDA f : Join(<<NullString>> \o Tail(f), ","))

\* count groups: the first ones of groups, then copies of the first.
Resized(groups, count) ==
    Tuple([i \in 1..count |-> IF i <= Len(groups) THEN groups[i] ELSE groups[1]])

\* groups with the nullAt-th made a null group (none when nullAt = 0).
WithNull(groups, nullAt) ==
    Tuple([i \in 1..Len(groups) |-> IF i = nullAt THEN NullGroup(groups[i]) ELSE groups[i]])

\* The payload a descriptor names: the declared width and height, the pixel
\* groups, each followed by ";" (the last one only when terminated).
Payload(groups, d) ==
    Join(<<NatToString(d.width), NatToString(d.height)>>
         \o WithNull(Resized(groups, d.count), d.nullAt), ";")
    \o (IF d.terminated THEN <<";">> ELSE <<>>)

\* The payloads loaded into a w x h surface: every combination of a right
\* or wrong declared width and height, one group too few, the right number
\* or one too many, with or without the final ";"; and the right payload
\* with one of its groups made a null group.
Descriptors(w, h) ==
    {[width |-> dw, height |-> dh, count |-> c, terminated |-> t, nullAt |-> 0] :
        dw \in {w, w + 1}, dh \in {h, h + 1}, c \in {w * h - 1, w * h, w * h + 1},
        t \in BOOLEAN}
    \cup {[width |-> w, height |-> h, count |-> w * h, terminated |-> TRUE, nullAt |-> k] :
             k \in 1..(w * h)}

\* var s = source.imageToString()
ImageToString ==
    /\ pc \in {"new", "ready"}
    /\ result' = MinimalView_imageToString(e.heap, e.views["src"])
    /\ call' = [op |-> "imageToString", args |-> <<>>]
    /\ pc' = "saved"
    /\ UNCHANGED <<e, before>>
    /\ UNCHANGED workerVars

\* destination.imageFromString(payload)
ImageFromString ==
    /\ pc = "saved"
    /\ \E d \in Descriptors(Width(e, "dst"), Height(e, "dst")) :
         \E inString \in {Payload(PixelGroups(result), d)} :
           \E l \in {MinimalView_imageFromString(e.heap, e.views["dst"], inString)} :
              /\ e' = [e EXCEPT !.heap = l.heap, !.views["dst"] = l.view]
              /\ call' = [op |-> "imageFromString",
                          args |-> [payload |-> d, string |-> inString]]
    /\ before' = Snapshot(e)
    /\ pc' = "loaded"
    /\ UNCHANGED result
    /\ UNCHANGED workerVars

NextImage ==
    \/ LoadDestination
    \/ ImageToString
    \/ ImageFromString

SpecImage == Init /\ [][NextImage]_vars

-----------------------------------------------------------------------------
(* Properties *)

\* The pixel of a grid at the i-th row-major coordinate (i from 0) of a
\* surface w pixels wide: (i mod w, i div w).
PixelAt(grid, i, w) == grid[(i \div w) + 1][(i % w) + 1]

\* C1: maskFilter with the identity kernel [[1]], factor 1 and bias 0 makes
\* every destination pixel (x, y), those of column 0 and row 0 included,
\* equal to the source pixel (x, y) in r, g, b and alpha.
C1_IdentityMaskReproducesSource ==
    (/\ pc = "done"
     /\ call.op = "maskFilter"
     /\ call.args.mask = IdentityMask
     /\ call.args.factor = QInt(1)
     /\ call.args.bias = QInt(0))
    => \A y \in 1..Height(e, "src"), x \in 1..Width(e, "src") :
           Grid(e, "dst")[y][x] = before.src[y][x]

\* The filters that take a source and a destination surface.
FilterOps ==
    {"copy", "grayscale", "invert", "blend", "threshold", "assignChannelValue", "equalize",
     "maskFilter", "detectEdges", "translate", "rotate", "scale", "erosion"}

\* C2: after any filter called with a destination surface that is another
\* object than the source surface, the r, g, b, a read at every source
\* coordinate are the ones read there before the call.
C2_SourceUnchanged ==
    (pc = "done" /\ call.op \in FilterOps) => Grid(e, "src") = before.src

\* C3: after translate by (dx, dy), every destination pixel (x, y) is the
\* source pixel (x - dx, y - dy) when that coordinate is inside the source,
\* and the fill color (white when none is given) otherwise, whatever the
\* destination held before.
C3_TranslateFillsUncovered ==
    (pc = "done" /\ call.op = "translate")
    => \A y \in 0..(Height(e, "src") - 1), x \in 0..(Width(e, "src") - 1) :
           Grid(e, "dst")[y + 1][x + 1] =
               IF /\ (x - call.args.offsetX) \in 0..(Width(e, "src") - 1)
                  /\ (y - call.args.offsetY) \in 0..(Height(e, "src") - 1)
               THEN before.src[y - call.args.offsetY + 1][x - call.args.offsetX + 1]
               ELSE IF call.args.fillGiven THEN RGBA(CallerColor)
               ELSE RGBA(Color(QInt(255), QInt(255), QInt(255), QInt(1)))

\* C4: erosion with threshold 7 on a surface whose pixels all equal
\* erosionColor and neighborColor overwrites every interior destination
\* pixel with replacementColor (the pixel (1, 1) of a 3 x 3 surface).
C4_ErosionReplacesInterior ==
    (/\ pc = "done"
     /\ call.op = "erosion"
     /\ call.args.threshold = 7
     /\ \A y \in 1..Height(e, "src"), x \in 1..Width(e, "src") :
            /\ before.src[y][x] = RGBA(call.args.erosionColor)
            /\ before.src[y][x] = RGBA(call.args.neighborColor))
    => \A y \in 2..(Height(e, "src") - 1), x \in 2..(Width(e, "src") - 1) :
           Grid(e, "dst")[y][x] = RGBA(call.args.replacementColor)

\* C5: loading the string imageToString gave for a surface into a surface
\* of the same size makes every pixel (x, y) of the target equal to the
\* original pixel (x, y) in r, g, b and a.
C5_RoundTrip ==
    (pc = "loaded" /\ call.args.string = result) => Grid(e, "dst") = Grid(e, "src")

\* A round trip of a surface at least 2 x 2 whose pixels (1, 0) and (0, 1)
\* differ, into a destination that held other pixels.
C5_RoundTripHappens ==
    /\ pc = "loaded"
    /\ call.args.string = result
    /\ Width(e, "src") >= 2
    /\ Height(e, "src") >= 2
    /\ Grid(e, "src")[1][2] # Grid(e, "src")[2][1]
    /\ Grid(e, "dst") # before.dst

\* C6: imageFromString leaves every pixel of the target unchanged when the
\* payload's declared width or height differs from the surface's, or when
\* the number of pixel groups differs from width * height.
C6_MismatchRejected ==
    (/\ pc = "loaded"
     /\ \/ call.args.payload.width # Width(e, "dst")
        \/ call.args.payload.height # Height(e, "dst")
        \/ call.args.payload.count # Width(e, "dst") * Height(e, "dst"))
    => Grid(e, "dst") = before.dst

\* C7: when the k-th pixel group of an otherwise valid payload has "null"
\* as its first field, the pixel at the k-th row-major coordinate keeps its
\* prior value and every other group is written to its own row-major
\* coordinate.
C7_NullGroupSkipped ==
    (pc = "loaded" /\ call.args.payload.nullAt # 0)
    => \A i \in 0..(Width(e, "dst") * Height(e, "dst") - 1) :
           PixelAt(Grid(e, "dst"), i, Width(e, "dst")) =
               IF i + 1 = call.args.payload.nullAt
               THEN PixelAt(before.dst, i, Width(e, "dst"))
               ELSE PixelAt(Grid(e, "src"), i, Width(e, "dst"))

\* C8: every message the worker posts while handling a request of type
\* "Filter" carries a tag field equal to the tag of that request.
C8_EveryMessageTagged ==
    (pc = "idle" /\ request.type = "Filter")
    => \A i \in 1..Len(posted) :
           "tag" \in posted[i].fields /\ posted[i].tag = request.tag

\* The cmd of the Result message of each defined command.
ResultCommand ==
    [AssignChannelValue |-> "ResultAssignChannelValueFilter",
     BilinearInterpolate |-> "ResultBilinearInterpolateFilter",
     Blend |-> "ResultBlendFilter",
     Copy |-> "ResultCopyFilter",
     DetectEdges |-> "ResultDetectEdgesFilter",
     Equalize |-> "ResultEqualizeFilter",
     Erosion |-> "ResultErosionFilter",
     Grayscale |-> "ResultGrayscaleFilter",
     Histogram |-> "ResultHistogramFilter",
     Invert |-> "ResultInvertFilter",
     MaskFilter |-> "ResultMaskFilterFilter",
     Rotate |-> "ResultRotateFilter",
     Scale |-> "ResultScaleFilter",
     SumHistogram |-> "ResultSumHistogramFilter",
     Threshold |-> "ResultThresholdFilter",
     Translate |-> "ResultTranslateFilter"]

\* C9: for a Filter request whose cmd is a defined command the worker posts
\* exactly one message whose cmd is Result<cmd>Filter, and it is the last
\* message posted for the request.
C9_OneResultLast ==
    (pc = "idle" /\ request.type = "Filter" /\ request.cmd \in DOMAIN ResultCommand)
    => /\ Len(SelectSeq(posted, LAMBDA m : m.cmd = ResultCommand[request.cmd])) = 1
       /\ posted[Len(posted)].cmd = ResultCommand[request.cmd]

\* The payloads of the Result messages among msgs, in order.
ResultPayloads(msgs) ==
    Then(SelectSeq(msgs, LAMBDA m : m.kind = "object" /\ m.cmd \notin {"Progress", "Log"}),
         LAMBDA r : Tuple([i \in 1..Len(r) |-> r[i].text]))

\* C10: the Result payload posted for a Filter request is the one the same
\* request gets in a worker that has handled nothing before, whatever
\* requests were handled earlier.
C10_ResultOfRequestAlone ==
    (pc = "idle" /\ request.type = "Filter")
    => ResultPayloads(posted) = ResultPayloads(OnMessage(PristineGlobals, request).posted)

\* An erosion request with tolerance 0, for a color within 1 of the
\* surface's, handled by a worker whose global `tolerance` an earlier
\* request left at 1, and answered with a result.
C10_HandledAfterOtherRequests ==
    /\ pc = "idle"
    /\ request.type = "Filter"
    /\ request.cmd = "Erosion"
    /\ request.params.erosionColor = NearColorString
    /\ request.params.tolerance = QInt(0)
    /\ entry.tolerance = QInt(1)
    /\ entry # PristineGlobals
    /\ ResultPayloads(posted) # <<>>

-----------------------------------------------------------------------------
(* HistogramResult buckets *)

\* A caller that only counts: histogram of the source surface, then
\* sumHistogram of what histogram returned.
NextHistogram ==
    \/ LoadDestination
    \/ Histogram
    \/ SumHistogram

SpecHistogram == Init /\ [][NextHistogram]_vars

\* How many values toString lists for each channel, in channel order.
ListedPerChannel(string) ==
    Then(Split(string, ";"), LAMBDA channels :
        Tuple([k \in 1..Len(channels) |-> Len(Split(channels[k], ","))]))

\* hr has n buckets in each of red, green, blue and alpha, and its string
\* lists n values for each of the four channels.
HasBuckets(hr, n) ==
    /\ <<Len(hr.red), Len(hr.green), Len(hr.blue), Len(hr.alpha)>> = <<n, n, n, n>>
    /\ ListedPerChannel(HistogramResult_toString(hr)) = <<n, n, n, n>>

SourceChannelsInRange ==
    \A y \in 1..Height(e, "src"), x \in 1..Width(e, "src") :
        /\ GetColor(e, "src", x - 1, y - 1) # Null
        /\ \A c \in {"r", "g", "b"} :
               Then(e.heap[GetColor(e, "src", x - 1, y - 1)][c], LAMBDA v :
                   IsInteger(v) /\ QLe(QInt(0), v) /\ QLe(v, QInt(255)))

NonDecreasing(array) == \A i \in 1..(Len(array) - 1) : QLe(array[i], array[i + 1])

\* C12: for a surface whose pixels have integer channels in 0..255, every
\* channel of sumHistogram(histogram(surface)) is non-decreasing from one
\* bucket to the next, and the last bucket of red, green and blue is
\* width*height.
C12_SumsRiseToPixelCount ==
    (pc = "done" /\ call.op = "sumHistogram" /\ SourceChannelsInRange)
    => /\ \A c \in {"red", "green", "blue", "alpha"} : NonDecreasing(result[c])
       /\ \A c \in {"red", "green", "blue"} :
              result[c][Len(result[c])] = QInt(Width(e, "src") * Height(e, "src"))

\* sumHistogram has returned for a surface of several pixels of more than
\* one red value: the red sums rise at more than one bucket.
C12_SumsOfSeveralValues ==
    /\ pc = "done"
    /\ call.op = "sumHistogram"
    /\ SourceChannelsInRange
    /\ Width(e, "src") * Height(e, "src") > 2
    /\ Cardinality({result.red[i] : i \in 1..Len(result.red)}) > 2

-----------------------------------------------------------------------------
(* equalize *)

\* How many pixels of grid have a value <= v in channel c (1 red, 2 green,
\* 3 blue).
CountAtMost(grid, c, v) ==
    Cardinality({p \in (1..Len(grid)) \X (1..Len(grid[1])) : QLe(grid[p[1]][p[2]][c], v)})

\* round(255 * N / (width*height)) for the N pixels of grid at or below v
\* in channel c.
EqualizedLevel(grid, c, v) ==
    MathRound(QDiv(QMul(QInt(255), QInt(CountAtMost(grid, c, v))),
                   QInt(Len(grid) * Len(grid[1]))))

\* C13: equalize writes to every destination pixel, for each of red, green
\* and blue, round(255 * N / (width*height)) where N counts the source
\* pixels at or below the source pixel's value in that channel, and copies
\* alpha; a surface that is all (0,0,0) becomes all (255,255,255).
C13_EqualizedLevels ==
    (pc = "done" /\ call.op = "equalize")
    => \A y \in 1..Height(e, "src"), x \in 1..Width(e, "src") :
           Grid(e, "dst")[y][x]
             = << EqualizedLevel(before.src, 1, before.src[y][x][1]),
                  EqualizedLevel(before.src, 2, before.src[y][x][2]),
                  EqualizedLevel(before.src, 3, before.src[y][x][3]),
                  before.src[y][x][4] >>

\* equalize has returned for a surface of several pixels with more than
\* one red value, so that some destination red is below 255, and with a
\* pixel that is not opaque.
C13_EqualizedSeveralValues ==
    /\ pc = "done"
    /\ call.op = "equalize"
    /\ Width(e, "src") * Height(e, "src") > 2
    /\ \E y \in 1..Height(e, "src"), x \in 1..Width(e, "src") :
           Grid(e, "dst")[y][x][1] \notin {QInt(0), QInt(255)}
    /\ \E y \in 1..Height(e, "src"), x \in 1..Width(e, "src") :
           before.src[y][x][4] # QInt(1)

-----------------------------------------------------------------------------
(* A caller that reads and writes the pixels of its source surface itself. *)

\* Coordinates before, at the end of, and past a side of n pixels.
ViewCoordinates(n) == {-1, n - 1, n}

\* The colors a caller passes: none, or a Color object it holds (here the
\* one at the origin of its blend surface).
CallerColors(env) == {Null, GetColor(env, "blend", 0, 0)}

GetColorCall ==
    /\ pc \in {"new", "ready"}
    /\ \E x \in ViewCoordinates(Width(e, "src")), y \in ViewCoordinates(Height(e, "src")) :
           /\ call' = [op |-> "getColor", args |-> [x |-> x, y |-> y]]
           /\ result' = GetColor(e, "src", x, y)
    /\ before' = Snapshot(e)
    /\ UNCHANGED <<e, pc>>
    /\ UNCHANGED workerVars

SetColorCall ==
    /\ pc \in {"new", "ready"}
    /\ \E x \in ViewCoordinates(Width(e, "src")), y \in ViewCoordinates(Height(e, "src")),
          c \in CallerColors(e) :
           /\ call' = [op |-> "setColor", args |-> [x |-> x, y |-> y, color |-> c]]
           /\ e' = SetColor(e, "src", x, y, c)
    /\ before' = Snapshot(e)
    /\ result' = <<>>
    /\ UNCHANGED pc
    /\ UNCHANGED workerVars

FillCall ==
    /\ pc \in {"new", "ready"}
    /\ \E c \in CallerColors(e) :
           /\ call' = [op |-> "fill", args |-> [color |-> c]]
           /\ e' = [e EXCEPT !.views["src"] = MinimalView_fill(@, c)]
    /\ before' = Snapshot(e)
    /\ result' = <<>>
    /\ UNCHANGED pc
    /\ UNCHANGED workerVars

NextView ==
    \/ GetColorCall
    \/ SetColorCall
    \/ FillCall

SpecView == Init /\ [][NextView]_vars

\* (x, y) is a coordinate of the source surface.
InsideSource(x, y) == 0 <= x /\ x < Width(e, "src") /\ 0 <= y /\ y < Height(e, "src")

\* C14: in any sequence of getColor, setColor and fill calls on a surface,
\* with coordinates inside and outside it and colors present or absent, a
\* getColor outside the surface returns no color, and a setColor outside
\* the surface or without a color leaves every pixel as it was.
C14_OutsideIsHarmless ==
    /\ (call.op = "getColor" /\ ~InsideSource(call.args.x, call.args.y)) => result = Null
    /\ (call.op = "setColor"
          /\ (~InsideSource(call.args.x, call.args.y) \/ call.args.color = Null))
       => Grid(e, "src") = before.src

\* A setColor with a color, one column past the right edge, on a surface
\* whose last pixel an earlier setColor has already changed.
C14_SetPastEdgeAfterChange ==
    /\ call.op = "setColor"
    /\ call.args.x = Width(e, "src")
    /\ call.args.y = Height(e, "src") - 1
    /\ call.args.color # Null
    /\ Width(e, "src") > 1
    /\ GetColor(e, "src", Width(e, "src") - 1, Height(e, "src") - 1) = call.args.color
    /\ GetColor(e, "src", 0, 0) # call.args.color

-----------------------------------------------------------------------------
(* bilinearInterpolatePixel at integer coordinates *)

\* C15: bilinearInterpolate calls bilinearInterpolatePixel at every integer
\* coordinate of the surface it has copied the source into, the last column
\* and the last row included, and stores what it returns; each returned
\* color has the r, g, b and a of the pixel that was at that coordinate.
C15_IntegerCoordinatesKeepPixel ==
    (pc = "done" /\ call.op = "bilinearInterpolate")
    => \A y \in 1..Height(e, "src"), x \in 1..Width(e, "src") :
           /\ Filters_bilinearInterpolatePixel(e, "src", QInt(x - 1), QInt(y - 1)).kind = "new"
           /\ RGBA(Filters_bilinearInterpolatePixel(e, "src", QInt(x - 1), QInt(y - 1)).color)
                = before.src[y][x]
           /\ Grid(e, "dst")[y][x] = before.src[y][x]

\* bilinearInterpolate has returned for a surface of several columns and
\* rows whose last pixel is translucent and differs from its first.
C15_InterpolatedLastPixel ==
    /\ pc = "done"
    /\ call.op = "bilinearInterpolate"
    /\ Width(e, "src") > 1
    /\ Height(e, "src") > 1
    /\ before.src[Height(e, "src")][Width(e, "src")] # before.src[1][1]
    /\ before.src[Height(e, "src")][Width(e, "src")][4] = Q(1, 2)

-----------------------------------------------------------------------------
(* rotate by no angle *)

\* C16: rotate by an angle of 0 around any rotation point, into a surface
\* of the source's size, makes every destination pixel equal to the source
\* pixel at the same coordinate.
C16_RotateByZeroIsIdentity ==
    (pc = "done" /\ call.op = "rotate" /\ call.args.angle = QInt(0))
    => Grid(e, "dst") = before.src

\* rotate by 0 has returned, around a rotation point off the diagonal, for
\* a surface of several pixel values and a destination that held another
\* image.
C16_RotatedAroundPoint ==
    /\ pc = "done"
    /\ call.op = "rotate"
    /\ call.args.angle = QInt(0)
    /\ call.args.point = <<1, 0>>
    /\ Width(e, "src") > 1
    /\ Height(e, "src") > 1
    /\ before.src[1][2] # before.src[1][1]
    /\ before.dst # before.src
    /\ before.dst[1][1][4] # QInt(0)

-----------------------------------------------------------------------------
(* Color.blend on a pixel object *)

\* The colors a caller blends in: the palette's r, g, b with an alpha of 0,
\* 1/2 or 1.
SourceColors ==
    {[Palette[k] EXCEPT !.a = a] : k \in 1..Len(Palette), a \in {QInt(0), Q(1, 2), QInt(1)}}

BlendOperations == {CROSS, ADDITIVE, ADDITIVE_ALPHA, MULTIPLIED}

\* The caller takes the Color object at a coordinate of its source surface
\* and blends a color into it.
ColorBlend ==
    /\ pc = "new"
    /\ \E y \in 0..(Height(e, "src") - 1), x \in 0..(Width(e, "src") - 1),
          s \in SourceColors, op \in BlendOperations :
           /\ call' = [op |-> "Color.blend",
                       args |-> [this |-> e.heap[GetColor(e, "src", x, y)], x |-> x, y |-> y,
                                 inSourceColor |-> s, inBlendOperation |-> op]]
           /\ e' = [e EXCEPT !.heap[GetColor(e, "src", x, y)] = Color_blend(@, s, op)]
    /\ before' = Snapshot(e)
    /\ result' = <<>>
    /\ pc' = "done"
    /\ UNCHANGED workerVars

NextColor == ColorBlend

SpecColor == Init /\ [][NextColor]_vars

\* The color the last Color.blend call was made on, as it is now.
Blended == e.heap[GetColor(e, "src", call.args.x, call.args.y)]

\* C17: after d.blend(s, CROSS) on 255-mode colors with integer channels in
\* 0..255, d is as it was when s.a is 0, and d has the r, g, b of s and an
\* alpha of 1 when s.a is 1.
C17_CrossBlendEnds ==
    (call.op = "Color.blend" /\ call.args.inBlendOperation = CROSS)
    => /\ call.args.inSourceColor.a = QInt(0) => RGBA(Blended) = RGBA(call.args.this)
       /\ call.args.inSourceColor.a = QInt(1)
          => RGBA(Blended) = << call.args.inSourceColor.r, call.args.inSourceColor.g,
                                call.args.inSourceColor.b, QInt(1) >>

\* A CROSS blend of an opaque color into a translucent pixel of other
\* r, g and b has been made.
C17_CrossBlendedOpaque ==
    /\ call.op = "Color.blend"
    /\ call.args.inBlendOperation = CROSS
    /\ call.args.inSourceColor.a = QInt(1)
    /\ call.args.this.a = Q(1, 2)
    /\ call.args.this.r # call.args.inSourceColor.r
    /\ call.args.this.g # call.args.inSourceColor.g
    /\ call.args.this.b # call.args.inSourceColor.b

-----------------------------------------------------------------------------
(* The coordinates maskFilter samples *)

\* C18: for every destination pixel (x, y) and every cell (i, j) of the
\* mask, the source coordinate maskFilter samples is inside
\* [0, width) x [0, height), and on a surface that has a color at every
\* coordinate no mask cell is skipped (nothing is reported as a null color).
C18_SamplesInsideSurface ==
    (pc = "done" /\ call.op = "maskFilter")
    => /\ \A x \in 0..(Width(e, "src") - 1), i \in 0..(Len(call.args.mask[1]) - 1) :
              Filters_maskFilter_wrap(x, Len(call.args.mask[1]), i, e.views["src"].width)
                  \in 0..(Width(e, "src") - 1)
       /\ \A y \in 0..(Height(e, "src") - 1), j \in 0..(Len(call.args.mask) - 1) :
              Filters_maskFilter_wrap(y, Len(call.args.mask), j, e.views["src"].height)
                  \in 0..(Height(e, "src") - 1)
       /\ \A k \in 1..Len(e.out) : ~(e.out[k].fn = "warn" /\ e.out[k].name = "MaskFilter")

-----------------------------------------------------------------------------
(* Filters on a source surface with coordinates that have no color: the   *)
(* owner has made the surface wider or higher than its stored grid.       *)

\* The widths or heights an owner sets on a side that now has n pixels.
Enlarged(n) == {n + 1, n + 2}

SetWidth ==
    /\ pc = "new"
    /\ Width(e, "src") = Len(e.views["src"].colors[1])
    /\ \E inWidth \in Enlarged(Width(e, "src")) :
           e' = [e EXCEPT !.views["src"] = MinimalView_setWidth(@, inWidth)]
    /\ UNCHANGED <<pc, call, before, result>>
    /\ UNCHANGED workerVars

SetHeight ==
    /\ pc = "new"
    /\ Height(e, "src") = Len(e.views["src"].colors)
    /\ \E inHeight \in Enlarged(Height(e, "src")) :
           e' = [e EXCEPT !.views["src"] = MinimalView_setHeight(@, inHeight)]
    /\ UNCHANGED <<pc, call, before, result>>
    /\ UNCHANGED workerVars

\* The caller makes a destination surface of the source's present size and
\* draws an image of its own into it.
NewDestination ==
    /\ pc = "new"
    /\ \E d \in {Image(e.heap, Width(e, "src"), Height(e, "src"), NumPatterns - 1)} :
           e' = [e EXCEPT !.heap = d.heap, !.views["dst"] = d.view]
    /\ pc' = "ready"
    /\ UNCHANGED <<call, before, result>>
    /\ UNCHANGED workerVars

NextAbsent ==
    \/ SetWidth
    \/ SetHeight
    \/ NewDestination
    \/ Equalize
    \/ Threshold
    \/ Grayscale
    \/ Invert
    \/ AssignChannelValue
    \/ Blend
    \/ DetectEdges
    \/ Erosion

SpecAbsent == Init /\ [][NextAbsent]_vars

\* The filters that scan a source surface pixel by pixel.
ScanningOps ==
    {"equalize", "threshold", "grayscale", "invert", "assignChannelValue", "blend",
     "detectEdges", "erosion"}

\* C19: when the source surface has no color at a coordinate inside its
\* width x height range, each of equalize, threshold, grayscale, invert,
\* assignChannelValue, blend, detectEdges and erosion returns without
\* throwing and leaves the destination pixel at that coordinate as it was.
C19_AbsentPixelSkipped ==
    (pc = "done" /\ call.op \in ScanningOps)
    => /\ ~Thrown(e)
       /\ \A y \in 1..Len(before.src), x \in 1..Len(before.src[1]) :
              (before.src[y][x] = <<>> /\ y <= Len(before.dst) /\ x <= Len(before.dst[1]))
              => Grid(e, "dst")[y][x] = before.dst[y][x]

-----------------------------------------------------------------------------
(* Color objects held by more than one pixel *)

\* copy(src, dst), after which the caller goes on to filter the copy.
CopyToDestination ==
    /\ pc = "new"
    /\ e' = Filters_copy(e, "src", "dst")
    /\ call' = [op |-> "copy", args |-> <<>>]
    /\ before' = Snapshot(e)
    /\ result' = <<>>
    /\ pc' = "copied"
    /\ UNCHANGED workerVars

\* grayscale(dst, blend): the copy is the source, a third surface the
\* destination.
GrayscaleOfCopy ==
    /\ pc = "copied"
    /\ e' = Filters_grayscale(e, "dst", "blend")
    /\ call' = [op |-> "grayscale", args |-> <<"dst", "blend">>]
    /\ before' = Snapshot(e)
    /\ result' = <<>>
    /\ pc' = "done"
    /\ UNCHANGED workerVars

NextShared ==
    \/ FillCall
    \/ Invert
    \/ CopyToDestination
    \/ GrayscaleOfCopy

SpecShared == Init /\ [][NextShared]_vars

\* Every pixel of the source surface holds the caller's color object: the
\* surface has been filled with it.
SourceFilled ==
    \A y \in 0..(Height(e, "src") - 1), x \in 0..(Width(e, "src") - 1) :
        GetColor(e, "src", x, y) = GetColor(e, "blend", 0, 0)

\* C20: pixels do not share their colors.  After v.fill(c) and then
\* invert(v, d), every pixel of d is (255 - c.r, 255 - c.g, 255 - c.b); and
\* after copy(a, b) and then grayscale(b, e), every pixel of a is as it was.
C20_PixelsAreValues ==
    /\ (pc = "done" /\ call.op = "invert" /\ SourceFilled)
       => \A y \in 1..Height(e, "src"), x \in 1..Width(e, "src"), c \in 1..3 :
              Grid(e, "dst")[y][x][c] = QSub(QInt(255), before.src[1][1][c])
    /\ (pc = "done" /\ call.op = "grayscale")
       => Grid(e, "src") = before.src

-----------------------------------------------------------------------------
(* detectEdges' gate *)

\* The luminance of normalized r, g, b.
Luminance(r, g, b) ==
    QAdd(QAdd(QMul(r, Q(299, 1000)), QMul(g, Q(587, 1000))), QMul(b, Q(114, 1000)))

\* Channel c of the 3 x 3 mask sum at the pixel in row y, column x of grid
\* (4 times the pixel less its four diagonal neighbours, on normalized
\* values), clamped to 0..1.
EdgeSum(grid, x, y, c) ==
    ClampNumber(
        QDiv(QSub(QSub(QSub(QSub(QMul(QInt(4), grid[y][x][c]), grid[y - 1][x - 1][c]),
                            grid[y - 1][x + 1][c]),
                       grid[y + 1][x - 1][c]),
                  grid[y + 1][x + 1][c]),
             QInt(255)),
        QInt(1))

EdgeLuminance(grid, x, y) ==
    Luminance(EdgeSum(grid, x, y, 1), EdgeSum(grid, x, y, 2), EdgeSum(grid, x, y, 3))

PixelLuminance(grid, x, y) ==
    Luminance(QDiv(grid[y][x][1], QInt(255)), QDiv(grid[y][x][2], QInt(255)),
              QDiv(grid[y][x][3], QInt(255)))

\* The pixel in row y, column x is interior and its mask sum is brighter
\* than the pixel itself.
EdgeFound(grid, x, y) ==
    /\ 1 < x /\ x < Len(grid[1]) /\ 1 < y /\ y < Len(grid)
    /\ QGt(EdgeLuminance(grid, x, y), PixelLuminance(grid, x, y))

\* C21: detectEdges overwrites the destination pixel (x, y), with the gray
\* of the clamped mask sum, exactly when (x, y) is interior and the
\* luminance of the clamped mask sum exceeds the luminance of the source
\* pixel; every other destination pixel, the border included, is as it was
\* before the call.
C21_EdgeGate ==
    (pc = "done" /\ call.op = "detectEdges")
    => \A y \in 1..Height(e, "src"), x \in 1..Width(e, "src") :
           IF EdgeFound(before.src, x, y)
           THEN \A c \in 1..3 :
                    Grid(e, "dst")[y][x][c]
                      = MathRound(QMul(EdgeLuminance(before.src, x, y), QInt(255)))
           ELSE Grid(e, "dst")[y][x] = before.dst[y][x]

\* detectEdges has returned for a surface with an interior pixel brighter
\* in its mask sum than in itself, and has changed that destination pixel
\* of a destination that held another image.
C21_EdgeOverwritten ==
    /\ pc = "done"
    /\ call.op = "detectEdges"
    /\ Width(e, "src") = 3
    /\ Height(e, "src") = 3
    /\ EdgeFound(before.src, 2, 2)
    /\ before.dst[1][1][4] # QInt(0)
    /\ Grid(e, "dst")[2][2] # before.dst[2][2]

-----------------------------------------------------------------------------
(* erosion's copy *)

\* C22: after erosion, every destination pixel that does not hold the
\* replacement color equals the source pixel at the same coordinate, the
\* pixels of the outermost rows and columns included.
C22_RestEqualsSource ==
    (pc = "done" /\ call.op = "erosion" /\ ~Thrown(e))
    => \A y \in 1..Height(e, "src"), x \in 1..Width(e, "src") :
           \/ Grid(e, "dst")[y][x] = RGBA(call.args.replacementColor)
           \/ Grid(e, "dst")[y][x] = before.src[y][x]

-----------------------------------------------------------------------------
(* erosion's count: surfaces three pixels wide whose rows are painted in   *)
(* the color to erode and in another color.                                *)

MaxErosionHeight == 4

\* The rows a surface is painted with: all in Palette[1], all in
\* Palette[2], and Palette[2] between two pixels of Palette[1].
ErosionRows ==
    { << Palette[1], Palette[1], Palette[1] >>,
      << Palette[2], Palette[2], Palette[2] >>,
      << Palette[1], Palette[2], Palette[1] >> }

\* A MinimalView whose every pixel has been set to its own new Color
\* object, row y holding the colors rows[y].  Gives the new heap and the view.
Painted(heap, rows) ==
    LET w    == Len(rows[1])
        h    == Len(rows)
        base == Len(heap)
    IN  [heap |-> heap \o Tuple([k \in 1..(w * h) |-> rows[((k - 1) \div w) + 1][((k - 1) % w) + 1]]),
         view |-> [width |-> w, height |-> h,
                   colors |-> Tuple([y \in 1..h |->
                                 Tuple([x \in 1..w |-> base + (y - 1) * w + x])]),
                   backgroundColor |-> Null]]

\* A caller's program state with a painted source surface, a new
\* destination surface of the same size and a Filters object whose
\* callbacks are set.
PaintedEnvironment(rows) ==
    LET s == Painted(<<>>, rows)
        d == MinimalView(s.heap, s.view.width, s.view.height)
    IN  [heap |-> d.heap, views |-> [src |-> s.view, dst |-> d.view, blend |-> s.view],
         tolerance |-> PristineGlobals.tolerance, oNewColor |-> PristineGlobals.oNewColor,
         filters |-> [progress |-> TRUE, warn |-> TRUE, log |-> FALSE], out |-> <<>>,
         thrown |-> ""]

InitErosion ==
    /\ \E h \in 3..MaxErosionHeight :
           \E rows \in [1..h -> ErosionRows] : e = PaintedEnvironment(Tuple(rows))
    /\ pc = "new"
    /\ call = NoCall
    /\ before = Snapshot(e)
    /\ result = <<>>
    /\ globals = PristineGlobals
    /\ request = NoRequest
    /\ entry = PristineGlobals
    /\ posted = <<>>

\* erosion of Palette[1] with neighbors counted in Palette[1] or Palette[2].
ErosionOfPainted ==
    \E inThreshold \in {5, 7, 8}, inNeighborColor \in {Palette[1], Palette[2]} :
        LET replacement == Allocate(e, CallerColor)
        IN  Called("erosion",
                   [erosionColor |-> Palette[1], threshold |-> inThreshold,
                    tolerance |-> QInt(0), neighborColor |-> inNeighborColor,
                    replacementColor |-> CallerColor],
                   Filters_erosion(replacement.e, "src", "dst", Palette[1], QInt(inThreshold),
                                   QInt(0), inNeighborColor, replacement.ref),
                   <<>>)

NextErosion == ErosionOfPainted

SpecErosion == InitErosion /\ [][NextErosion]_vars

\* How many of the 8 pixels around the pixel in row y, column x of grid
\* have the r, g, b of color.
NeighborsMatching(grid, x, y, color) ==
    Cardinality({p \in (-1..1) \X (-1..1) :
                    /\ p # <<0, 0>>
                    /\ grid[y + p[1]][x + p[2]][1] = color.r
                    /\ grid[y + p[1]][x + p[2]][2] = color.g
                    /\ grid[y + p[1]][x + p[2]][3] = color.b})

\* C23: the count erosion compares with the threshold ranges over the 8
\* pixels around the examined pixel and never over that pixel itself: an
\* interior pixel holds the replacement color only when more than
\* threshold of its 8 neighbors match neighborColor (tolerance 0), so with
\* threshold 8 no pixel is replaced.
C23_CountsEightNeighbors ==
    (pc = "done" /\ call.op = "erosion" /\ ~Thrown(e))
    => \A y \in 2..(Height(e, "src") - 1), x \in 2..(Width(e, "src") - 1) :
           Grid(e, "dst")[y][x] = RGBA(call.args.replacementColor)
           => NeighborsMatching(before.src, x, y, call.args.neighborColor)
                > call.args.threshold

-----------------------------------------------------------------------------
(* bilinearInterpolatePixel at coordinates on and between the pixels, and  *)
(* up to one pixel outside the surface.                                    *)

\* The multiples of 1/4 from -1 to n + 3/4.
SampleCoordinates(n) == {Q(k, 4) : k \in (-4)..(4 * n + 3)}

BilinearInterpolatePixel ==
    \E inX \in SampleCoordinates(Width(e, "src")), inY \in SampleCoordinates(Height(e, "src")) :
        Called("bilinearInterpolatePixel", [x |-> inX, y |-> inY], e,
               Filters_bilinearInterpolatePixel(e, "src", inX, inY))

NextPixel == BilinearInterpolatePixel

SpecPixel == Init /\ [][NextPixel]_vars

\* The number q rounds to a coordinate of 0..(n - 1).
RoundsInside(q, n) == QLe(QInt(0), MathRound(q)) /\ QLt(MathRound(q), QInt(n))

-----------------------------------------------------------------------------
(* The names the callbacks are given *)

\* The names of the scans a call of each filter runs: its own and those of
\* the filters it calls (the histogram a sumHistogram call is given was
\* made by a histogram call before it).
ScanNames ==
    [copy                |-> {"Copy"},
     histogram           |-> {"Histogram"},
     sumHistogram        |-> {"Histogram", "SumHistogram"},
     blend               |-> {"Blend"},
     bilinearInterpolate |-> {"Copy", "BilinearInterpolate"},
     equalize            |-> {"Histogram", "SumHistogram", "Equalize"},
     threshold           |-> {"Threshold"},
     grayscale           |-> {"Grayscale"},
     invert              |-> {"Invert"},
     assignChannelValue  |-> {"AssignChannelValue"},
     detectEdges         |-> {"DetectEdges"},
     translate           |-> {"Translate"},
     rotate              |-> {"Rotate"},
     scale               |-> {"Scale"},
     erosion             |-> {"Erosion"},
     maskFilter          |-> {"MaskFilter"}]

\* C25: every progress or warn callback invoked during a filter call is
\* given, as its first argument, the name of the filter whose scan emitted
\* it: Blend for blend, AssignChannelValue for assignChannelValue,
\* BilinearInterpolate for the interpolating scan of bilinearInterpolate,
\* and so on.
C25_CallbackNamesFilter ==
    call.op \in DOMAIN ScanNames
    => \A k \in 1..Len(e.out) :
           e.out[k].fn \in {"progress", "warn"} => e.out[k].name \in ScanNames[call.op]

-----------------------------------------------------------------------------
(* maskFilter with masks that are not square *)

\* Masks of 1 x 2, 2 x 1, 2 x 3 and 3 x 2 (rows x columns) weights.
OblongMasks ==
    { Matrix(<< <<1, 1>> >>, Q(1, 2)),
      Matrix(<< <<1>>, <<1>> >>, Q(1, 2)),
      Matrix(<< <<0, 1, 0>>, <<1, 1, 1>> >>, Q(1, 4)),
      Matrix(<< <<0, 1>>, <<1, 1>>, <<0, 1>> >>, Q(1, 4)) }

MaskFilterOblong ==
    \E inMask \in OblongMasks :
        Called("maskFilter", [mask |-> inMask, factor |-> QInt(1), bias |-> QInt(0)],
               Filters_maskFilter(e, "src", "dst", inMask, QInt(1), QInt(0)), <<>>)

NextMask == LoadDestination \/ MaskFilterOblong

SpecMask == Init /\ [][NextMask]_vars

\* C26: maskFilter accepts a mask of R rows and C columns with R # C: it
\* does not throw, and at every destination pixel each of the R * C weights
\* is multiplied with one sampled source pixel and added to the channel
\* sums, so that every destination pixel gets red, green and blue that are
\* numbers of 0..255.
C26_OblongMaskApplied ==
    (pc = "done" /\ call.op = "maskFilter")
    => /\ ~Thrown(e)
       /\ \A y \in 1..Height(e, "dst"), x \in 1..Width(e, "dst"), c \in 1..3 :
              /\ QLe(QInt(0), Grid(e, "dst")[y][x][c])
              /\ QLe(Grid(e, "dst")[y][x][c], QInt(255))

-----------------------------------------------------------------------------
(* A surface that is written to and loaded, and never resized *)

\* The payloads loaded into a w x h surface: the right one, the right one
\* with its first group made a null group, one that declares another
\* width, and one with a group too many.
LoadedDescriptors(w, h) ==
    {[width |-> w, height |-> h, count |-> w * h, terminated |-> TRUE, nullAt |-> k] :
        k \in {0, 1}}
    \cup {[width |-> w + 1, height |-> h, count |-> w * h, terminated |-> TRUE, nullAt |-> 0],
          [width |-> w, height |-> h, count |-> w * h + 1, terminated |-> TRUE, nullAt |-> 0]}

\* source.imageFromString(payload), once, between the other calls.
ImageFromStringCall ==
    /\ pc = "new"
    /\ \E d \in LoadedDescriptors(Width(e, "src"), Height(e, "src")) :
         \E inString \in {Payload(PixelGroups(ImageString(Width(e, "src"), Height(e, "src"),
                                                          NumPatterns - 1)), d)} :
           \E l \in {MinimalView_imageFromString(e.heap, e.views["src"], inString)} :
              /\ e' = [e EXCEPT !.heap = l.heap, !.views["src"] = l.view]
              /\ call' = [op |-> "imageFromString",
                          args |-> [payload |-> d, string |-> inString]]
    /\ before' = Snapshot(e)
    /\ result' = <<>>
    /\ pc' = "ready"
    /\ UNCHANGED workerVars

NextSurface ==
    \/ SetColorCall
    \/ FillCall
    \/ ImageFromStringCall

SpecSurface == Init /\ [][NextSurface]_vars

\* C27: a MinimalView constructed with w x h pixels and never resized has,
\* after any sequence of setColor, fill and imageFromString calls, a color
\* at every (x, y) of [0, w) x [0, h): getColor(x, y) is not absent.
C27_NeverAbsent ==
    \A y \in 0..(Height(e, "src") - 1), x \in 0..(Width(e, "src") - 1) :
        GetColor(e, "src", x, y) # Null

\* After a payload with a null group has been loaded, setColor has been
\* called inside the surface without a color.
C27_AbsentColorSetAfterLoad ==
    /\ pc = "ready"
    /\ call.op = "setColor"
    /\ call.args.color = Null
    /\ InsideSource(call.args.x, call.args.y)
    /\ Len(e.heap) > 3 * Width(e, "src") * Height(e, "src")
    /\ Len(e.heap) < 4 * Width(e, "src") * Height(e, "src")

-----------------------------------------------------------------------------
(* equalize keeps the order of the values of a channel *)

\* Between the grids from and to, of the same size, channel c keeps its
\* order: a pixel that is no greater than another in from is no greater
\* than it in to.
OrderKept(from, to, c) ==
    \A y \in 1..Len(from), x \in 1..Len(from[1]), v \in 1..Len(from), u \in 1..Len(from[1]) :
        QLe(from[y][x][c], from[v][u][c]) => QLe(to[y][x][c], to[v][u][c])

\* Channel c of every pixel of grid is an integer of 0..255.
ChannelInRange(grid, c) ==
    \A y \in 1..Len(grid), x \in 1..Len(grid[1]) :
        /\ IsInteger(grid[y][x][c])
        /\ QLe(QInt(0), grid[y][x][c])
        /\ QLe(grid[y][x][c], QInt(255))

\* C28: equalize preserves the order of each channel: for any two pixels p
\* and q of the source, src.r(p) <= src.r(q) implies dst.r(p) <= dst.r(q),
\* likewise for green and blue, and every output channel is in 0..255.
C28_EqualizeKeepsOrder ==
    (pc = "done" /\ call.op = "equalize")
    => Then(Grid(e, "dst"), LAMBDA to :
           \A c \in 1..3 : OrderKept(before.src, to, c) /\ ChannelInRange(to, c))

\* equalize has returned for a source with two pixels of different red,
\* which it has given different reds, and two pixels of the same green.
C28_EqualizedDistinctReds ==
    /\ pc = "done"
    /\ call.op = "equalize"
    /\ \E y \in 1..Height(e, "src"), x \in 1..Width(e, "src"),
          v \in 1..Height(e, "src"), u \in 1..Width(e, "src") :
           /\ QLt(before.src[y][x][1], before.src[v][u][1])
           /\ QLt(Grid(e, "dst")[y][x][1], Grid(e, "dst")[v][u][1])
    /\ \E y \in 1..Height(e, "src"), x \in 1..Width(e, "src"),
          v \in 1..Height(e, "src"), u \in 1..Width(e, "src") :
           /\ <<x, y>> # <<u, v>>
           /\ before.src[y][x][2] = before.src[v][u][2]

-----------------------------------------------------------------------------
(* The progress callbacks of one call *)

\* The percentages the progress callback has been given under name, in
\* the order of the calls.
Percentages(name) ==
    LET named(m) == m.fn = "progress" /\ m.name = name
        given == SelectSeq(e.out, named)
    IN  Tuple([k \in 1..Len(given) |-> given[k].arg[1]])

\* The iterations of the outer loop of each scan the call of a filter
\* runs, by the name the scan reports under; w and h are the width and
\* height of the source surface.  (The histogram a sumHistogram call is
\* given was made by the histogram call before it.)
OuterIterations(op, args, w, h) ==
    LET none == [name \in {} |-> 0]
        buckets == Len(HistogramResult.red)
        NonNegative(n) == IF n < 0 THEN 0 ELSE n
    IN  CASE op = "copy" -> [Copy |-> w]
          [] op = "histogram" -> [Histogram |-> w]
          [] op = "sumHistogram" -> [Histogram |-> w, SumHistogram |-> buckets]
          [] op = "blend" -> [Blend |-> w]
          [] op = "bilinearInterpolate" -> [Copy |-> w, SumHistogram |-> w]
          [] op = "equalize" -> [Histogram |-> w, SumHistogram |-> buckets, Equalize |-> w]
          [] op = "threshold" -> [Threshold |-> w]
          [] op = "grayscale" -> [Grayscale |-> w]
          [] op = "invert" -> [Invert |-> w]
          [] op = "assignChannelValue" -> [AssignChannelValue |-> w]
          [] op = "detectEdges" -> [DetectEdges |-> NonNegative(w - 2)]
          [] op = "translate" -> [Translate |-> h]
          [] op = "rotate" -> [Rotate |-> h]
          [] op = "scale" -> [Scale |-> MathCeil(QMul(QInt(h), args.scaleY)).n]
          [] op = "erosion" -> [Erosion |-> NonNegative(h - 2)]
          [] op = "maskFilter" -> [MaskFilter |-> w]
          [] OTHER -> none

\* The names under which a progress callback has been invoked.
ProgressNames == {e.out[k].name : k \in {i \in 1..Len(e.out) : e.out[i].fn = "progress"}}

\* C29: during one filter call with a progress callback set, the callback
\* is invoked exactly once per iteration of the outer loop of each scan,
\* and under each filter name the successive percentages are integers of
\* 0..100 that never decrease.
C29_ProgressPerOuterIteration ==
    Then(OuterIterations(call.op, call.args, Len(before.src[1]), Len(before.src)),
         LAMBDA iterations :
            /\ ProgressNames \subseteq DOMAIN iterations
            /\ \A name \in DOMAIN iterations :
                 Then(Percentages(name), LAMBDA given :
                    /\ Len(given) = iterations[name]
                    /\ \A k \in 1..Len(given) :
                          /\ IsInteger(given[k])
                          /\ QLe(QInt(0), given[k])
                          /\ QLe(given[k], QInt(100))
                          /\ k > 1 => QLe(given[k - 1], given[k])))

\* scale has returned after an outer loop of more iterations than the
\* source has rows, over a scaled height that is no integer, and the
\* last percentage given is neither 0 nor 100.
C29_ScaledProgress ==
    /\ pc = "done"
    /\ call.op = "scale"
    /\ ~IsInteger(QMul(QInt(Len(before.src)), call.args.scaleY))
    /\ Len(Percentages("Scale")) > Len(before.src)
    /\ Percentages("Scale")[Len(Percentages("Scale"))] \notin {QInt(0), QInt(100)}

-----------------------------------------------------------------------------
(* bilinearInterpolatePixel between four pixels *)

\* The grid coordinates around (x, y): floor and ceiling of each.
Corners(x, y) ==
    {MathFloor(x).n, MathCeil(x).n} \X {MathFloor(y).n, MathCeil(y).n}

\* Channel c of the pixels of grid at the corners around (x, y).
CornerValues(grid, x, y, c) == {grid[p[2] + 1][p[1] + 1][c] : p \in Corners(x, y)}

\* C30: when the four grid neighbours of (x, y) exist, with integer
\* channels of 0..255, each of r, g, b of the color
\* bilinearInterpolatePixel(surface, x, y) returns is an integer between
\* the least and the greatest value of that channel among the four
\* neighbours, and the pixels of the surface are as they were.
C30_InterpolatedWithinNeighbors ==
    (/\ pc = "done"
     /\ call.op = "bilinearInterpolatePixel"
     /\ \A p \in Corners(call.args.x, call.args.y) : InsideSource(p[1], p[2]))
    => /\ result.kind = "new"
       /\ \A c \in 1..3 :
             /\ IsInteger(RGBA(result.color)[c])
             /\ \E low \in CornerValues(before.src, call.args.x, call.args.y, c) :
                    QLe(low, RGBA(result.color)[c])
             /\ \E high \in CornerValues(before.src, call.args.x, call.args.y, c) :
                    QLe(RGBA(result.color)[c], high)
       /\ Grid(e, "src") = before.src

\* bilinearInterpolatePixel has returned a color for a coordinate off the
\* grid in x and in y, between four pixels, and its red is the red of none
\* of the four.
C30_InterpolatedBetweenPixels ==
    /\ pc = "done"
    /\ call.op = "bilinearInterpolatePixel"
    /\ ~IsInteger(call.args.x)
    /\ ~IsInteger(call.args.y)
    /\ \A p \in Corners(call.args.x, call.args.y) : InsideSource(p[1], p[2])
    /\ result.kind = "new"
    /\ result.color.r \notin CornerValues(before.src, call.args.x, call.args.y, 1)

=============================================================================
